---- MODULE Spec2Model ----
(***************************************************************************)
(* Kube-Shield operator: the pod reconciler (pod_controller.go), the       *)
(* policy reconciler (policy_controller.go), the predicates of the         *)
(* ShieldPolicy type and the API-server objects the reconcilers read and   *)
(* write.  A reconcile pass is split at its blocking calls                 *)
(* (Get, List, the audit POST, Delete, Status().Update); the code between  *)
(* two calls is local to the pass and is part of the step that follows     *)
(* the call.                                                               *)
(***************************************************************************)
EXTENDS Integers, Sequences, FiniteSets, TLC

VARIABLES
    pods,        \* the Pod objects the API server stores
    policies,    \* the ShieldPolicy objects the API server stores, by name
    queue,       \* work queue of the pod controller: pending requests
    pass,        \* per worker: the locals of its PodReconciler.Reconcile call
    clock,       \* wall clock read by time.Now() / metav1.Now()
    faults,      \* transient API failures injected so far
    auditURL,    \* PodReconciler.AuditServiceURL
    calls,       \* history: updatePolicyStatus invocations per policy
    pqueue,      \* work queue of the policy controller: pending policy names
    ppass,       \* the locals of the ShieldPolicyReconciler.Reconcile call
    det          \* input and output of a stand-alone checkPodViolations call

vars == <<pods, policies, queue, pass, clock, faults, auditURL, calls,
          pqueue, ppass, det>>

-----------------------------------------------------------------------------
\* Bounds of the model.

\* requests queued for the single-worker specification
MaxQueue == 1
\* transient (non-NotFound) API failures injected in one behaviour
MaxFaults == 1
\* last value of the wall clock (it starts at 1; 0 is the nil time)
MaxClock == 2
\* last generation a policy's spec is edited to (a new policy has generation 1)
MaxGeneration == 2
\* stand-alone runs of checkPodViolations on one input
MaxRuns == 2
\* length of the image references extractRegistry is run on
MaxLen == 4
\* length of the allowedRegistries IsRegistryAllowed is run on
MaxAllowed == 2

-----------------------------------------------------------------------------
\* Optional values (Go pointers): nil is the empty sequence.

None == <<>>
Some(x) == <<x>>

\* Strings the code inspects character by character are character sequences.
DockerIO == <<"d", "o", "c", "k", "e", "r", ".", "i", "o">>
Wildcard == <<"*">>
ImgNginx == <<"n", "g", "i", "n", "x">>
ImgEvil == <<"e", "v", "i", "l", ".", "i", "o", "/", "m", ":", "l">>
ImgMyReg == <<"m", "y", ".", "i", "o", "/", "n", "g", "i", "n", "x">>
ImgLibrary == <<"l", "i", "b", "/", "n", "g", "i", "n", "x">>
ImgLocal == <<"l", "o", "c", ":", "5", "0", "/", "a", "p", "p">>

ImgMyRegistry ==
    <<"m", "y", "r", "e", "g", "i", "s", "t", "r", "y", ".", "i", "o", "/",
      "n", "g", "i", "n", "x">>
ImgLibraryNginx == <<"l", "i", "b", "r", "a", "r", "y", "/", "n", "g", "i", "n", "x">>
ImgLocalhost ==
    <<"l", "o", "c", "a", "l", "h", "o", "s", "t", ":", "5", "0", "0", "0", "/",
      "a", "p", "p">>
MyRegistryIO == <<"m", "y", "r", "e", "g", "i", "s", "t", "r", "y", ".", "i", "o">>
Localhost5000 == <<"l", "o", "c", "a", "l", "h", "o", "s", "t", ":", "5", "0", "0", "0">>
MyIO == <<"m", "y", ".", "i", "o">>
EvilIO == <<"e", "v", "i", "l", ".", "i", "o">>

KubeSystem == "kube-system"

-----------------------------------------------------------------------------
\* Policy predicates.

\* IsEnforcing holding for every mode but Audit and Disabled
IsEnforcingUnlessAudit(s) ==
    s.Spec.EnforcementMode # "Audit" /\ s.Spec.EnforcementMode # "Disabled"

\* IsEnforcing holding for every mode but Disabled
IsEnforcingUnlessDisabled(s) == s.Spec.EnforcementMode # "Disabled"

IsEnforcing(s) ==
    s.Spec.EnforcementMode = "" \/ s.Spec.EnforcementMode = "Enforce"

\* IsAuditing holding for the empty mode too
IsAuditingOrUnset(s) ==
    s.Spec.EnforcementMode = "" \/ s.Spec.EnforcementMode = "Audit"

IsAuditing(s) == s.Spec.EnforcementMode = "Audit"

IsDisabled(s) == s.Spec.EnforcementMode = "Disabled"

ShouldBlockPrivileged(s) == s.Spec.BlockPrivileged /\ ~IsDisabled(s)

\* IsRegistryAllowed without the wildcard
IsRegistryAllowedNoWildcard(s, registry) ==
    IF Len(s.Spec.AllowedRegistries) = 0
    THEN TRUE
    ELSE \E k \in 1..Len(s.Spec.AllowedRegistries) :
            s.Spec.AllowedRegistries[k] = registry

IsRegistryAllowed(s, registry) ==
    IF Len(s.Spec.AllowedRegistries) = 0
    THEN TRUE
    ELSE \E k \in 1..Len(s.Spec.AllowedRegistries) :
            \/ s.Spec.AllowedRegistries[k] = registry
            \/ s.Spec.AllowedRegistries[k] = Wildcard

\* ShouldApplyToNamespace without the membership test of targetNamespaces
ShouldApplyToNamespaceAnyTarget(s, namespace) == namespace # KubeSystem

ShouldApplyToNamespace(s, namespace) ==
    IF namespace = KubeSystem
    THEN FALSE
    ELSE IF Len(s.Spec.TargetNamespaces) = 0
    THEN TRUE
    ELSE \E k \in 1..Len(s.Spec.TargetNamespaces) :
            s.Spec.TargetNamespaces[k] = namespace

-----------------------------------------------------------------------------
\* extractRegistry and the string functions it uses.

\* strings.Contains(str, c) for a one-character c
Contains(str, c) == \E k \in 1..Len(str) : str[k] = c

\* strings.Split(str, "/")[0]: the characters before the first "/"
FirstPart(str) ==
    IF Contains(str, "/")
    THEN SubSeq(str, 1, (CHOOSE k \in 1..Len(str) :
                            /\ str[k] = "/"
                            /\ \A m \in 1..(k - 1) : str[m] # "/") - 1)
    ELSE str

\* extractRegistry taking only a "." in the first part for a registry
extractRegistryDotOnly(image) ==
    IF ~Contains(image, "/")
    THEN DockerIO
    ELSE IF Contains(FirstPart(image), ".")
    THEN FirstPart(image)
    ELSE DockerIO

extractRegistry(image) ==
    IF ~Contains(image, "/")
    THEN DockerIO
    ELSE IF Contains(FirstPart(image), ".") \/ Contains(FirstPart(image), ":")
    THEN FirstPart(image)
    ELSE DockerIO

-----------------------------------------------------------------------------
\* checkPodViolations.

getActionString(policy) == IF IsEnforcing(policy) THEN "TERMINATED" ELSE "AUDIT"

SecurityEvent(now, type, severity, pod, container, image, reason, arg, action, policy) ==
    [Timestamp |-> now, EventType |-> type, Severity |-> severity,
     PodName |-> pod.Name, Namespace |-> pod.Namespace,
     Container |-> container, Image |-> image,
     Reason |-> [text |-> reason, registry |-> arg],
     Action |-> action, PolicyName |-> policy.Name]

\* HostNetworkViolations with the action of the policy's mode
HostNetworkViolationsPolicyAction(pod, policy, now) ==
    IF pod.Spec.HostNetwork
    THEN <<SecurityEvent(now, "HOST_NETWORK", "HIGH", pod, "", <<>>,
                         "Pod using host network", <<>>,
                         getActionString(policy), policy)>>
    ELSE <<>>

\* the host-network check (pod level)
HostNetworkViolations(pod, policy, now) ==
    IF pod.Spec.HostNetwork
    THEN <<SecurityEvent(now, "HOST_NETWORK", "HIGH", pod, "", <<>>,
                         "Pod using host network", <<>>, "AUDIT", policy)>>
    ELSE <<>>

\* the privileged-container check of one container
PrivilegedViolations(pod, policy, container, now) ==
    IF /\ ShouldBlockPrivileged(policy)
       /\ container.SecurityContext # None
       /\ container.SecurityContext[1].Privileged # None
       /\ container.SecurityContext[1].Privileged[1]
    THEN <<SecurityEvent(now, "PRIVILEGED_CONTAINER", "CRITICAL", pod,
                         container.Name, container.Image,
                         "Privileged container detected", <<>>,
                         getActionString(policy), policy)>>
    ELSE <<>>

\* the disallowed-registry check of one container
RegistryViolations(pod, policy, container, now) ==
    IF /\ Len(policy.Spec.AllowedRegistries) > 0
       /\ ~IsRegistryAllowed(policy, extractRegistry(container.Image))
    THEN <<SecurityEvent(now, "DISALLOWED_REGISTRY", "HIGH", pod,
                         container.Name, container.Image,
                         "Image from disallowed registry",
                         extractRegistry(container.Image),
                         getActionString(policy), policy)>>
    ELSE <<>>

\* the root-user check of one container
RootUserViolations(pod, policy, container, now) ==
    IF /\ container.SecurityContext # None
       /\ container.SecurityContext[1].RunAsUser # None
       /\ container.SecurityContext[1].RunAsUser[1] = 0
    THEN <<SecurityEvent(now, "ROOT_USER", "HIGH", pod,
                         container.Name, container.Image,
                         "Container running as root user", <<>>,
                         "AUDIT", policy)>>
    ELSE <<>>

\* the body of the loop over allContainers, from container k on
RECURSIVE ContainerViolations(_, _, _, _, _)
ContainerViolations(pod, policy, allContainers, k, now) ==
    IF k > Len(allContainers)
    THEN <<>>
    ELSE PrivilegedViolations(pod, policy, allContainers[k], now)
         \o RegistryViolations(pod, policy, allContainers[k], now)
         \o RootUserViolations(pod, policy, allContainers[k], now)
         \o ContainerViolations(pod, policy, allContainers, k + 1, now)

\* checkPodViolations with the host-network check after the containers
checkPodViolationsHostLast(pod, policy, now) ==
    ContainerViolations(pod, policy,
                        pod.Spec.Containers \o pod.Spec.InitContainers, 1, now)
    \o HostNetworkViolations(pod, policy, now)

\* checkPodViolations looking at pod.Spec.Containers only
checkPodViolationsNoInit(pod, policy, now) ==
    HostNetworkViolations(pod, policy, now)
    \o ContainerViolations(pod, policy, pod.Spec.Containers, 1, now)

checkPodViolations(pod, policy, now) ==
    HostNetworkViolations(pod, policy, now)
    \o ContainerViolations(pod, policy,
                           pod.Spec.Containers \o pod.Spec.InitContainers, 1, now)

-----------------------------------------------------------------------------
\* Objects of the API server.

Container(name, image, securityContext) ==
    [Name |-> name, Image |-> image, SecurityContext |-> securityContext]

\* corev1.SecurityContext with its two optional fields
SecurityContext(privileged, runAsUser) ==
    Some([Privileged |-> privileged, RunAsUser |-> runAsUser])

Pod(name, namespace, hostNetwork, containers, initContainers, phase, deleting) ==
    [Name |-> name, Namespace |-> namespace, DeletionTimestamp |-> deleting,
     Spec |-> [HostNetwork |-> hostNetwork, Containers |-> containers,
               InitContainers |-> initContainers],
     Status |-> [Phase |-> phase]]

CleanContainer == Container("app", ImgNginx, None)
PrivContainer == Container("app", ImgNginx, SecurityContext(Some(TRUE), None))

\* The workloads of the model.
PodCatalog ==
    { Pod("priv", "default", FALSE, <<PrivContainer>>, <<>>, "Running", FALSE),
      Pod("hostnet", "default", TRUE, <<CleanContainer>>, <<>>, "Running", FALSE),
      Pod("root", "default", FALSE,
          <<Container("app", ImgLibrary, SecurityContext(None, Some(0)))>>,
          <<>>, "Pending", FALSE),
      Pod("evil", "default", FALSE,
          <<Container("app", ImgEvil, None), Container("side", ImgLocal, None)>>,
          <<>>, "Running", FALSE),
      Pod("multi", "prod", TRUE,
          <<Container("app", ImgMyReg, SecurityContext(Some(TRUE), Some(0)))>>,
          <<Container("init", ImgEvil, SecurityContext(Some(FALSE), Some(1000)))>>,
          "Running", FALSE),
      Pod("clean", "default", FALSE,
          <<Container("app", ImgNginx, SecurityContext(Some(FALSE), Some(1000)))>>,
          <<>>, "Running", FALSE),
      Pod("sys", KubeSystem, TRUE, <<PrivContainer>>, <<>>, "Running", FALSE),
      Pod("dying", "default", FALSE, <<PrivContainer>>, <<>>, "Running", TRUE),
      Pod("finished", "default", FALSE, <<PrivContainer>>, <<>>, "Succeeded", FALSE),
      Pod("crashed", "default", TRUE, <<CleanContainer>>, <<>>, "Failed", FALSE) }

\* ctrl.Request: the identity of a workload
Request(pod) == [Namespace |-> pod.Namespace, Name |-> pod.Name]

NoRequest == [Namespace |-> "", Name |-> ""]

PolicySpec(blockPrivileged, allowedRegistries, enforcementMode, targetNamespaces) ==
    [BlockPrivileged |-> blockPrivileged, AllowedRegistries |-> allowedRegistries,
     EnforcementMode |-> enforcementMode, TargetNamespaces |-> targetNamespaces]

\* The policy specs of the model.
PolicyMenu ==
    { PolicySpec(TRUE, <<>>, "Enforce", <<>>),
      PolicySpec(TRUE, <<DockerIO>>, "Audit", <<>>),
      PolicySpec(TRUE, <<DockerIO>>, "Disabled", <<>>),
      PolicySpec(FALSE, <<DockerIO>>, "", <<"default">>),
      PolicySpec(FALSE, <<DockerIO, Wildcard>>, "Enforce", <<KubeSystem, "prod">>),
      PolicySpec(TRUE, <<>>, "Warn", <<>>),
      PolicySpec(TRUE, <<DockerIO>>, "", <<"default">>) }

NoMessage == [text |-> "", time |-> 0]

\* the zero value of ShieldPolicyStatus
ZeroStatus ==
    [Phase |-> "", LastEnforcementTime |-> 0, ViolationsCount |-> 0,
     TerminationsCount |-> 0, Conditions |-> <<>>, ObservedGeneration |-> 0,
     Message |-> NoMessage]

\* a ShieldPolicy as the API server stores it right after its creation
NewPolicy(name, spec) ==
    [Name |-> name, Generation |-> 1, ResourceVersion |-> 1,
     Spec |-> spec, Status |-> ZeroStatus]

PolicyNames == {"pa", "pb"}

\* The policy specs of the concurrent specification.
ConcurrentMenu ==
    { PolicySpec(TRUE, <<DockerIO>>, "Audit", <<>>),
      PolicySpec(TRUE, <<>>, "Enforce", <<>>) }

-----------------------------------------------------------------------------
\* PodReconciler.Reconcile: the locals of one call.

IdlePass ==
    [pc |-> "idle", req |-> NoRequest, pod |-> None, list |-> <<>>, i |-> 0,
     policy |-> None, violations |-> <<>>, j |-> 0, wasTerminated |-> FALSE,
     result |-> "none",
     \* history of the call
     evaluated |-> <<>>, events |-> <<>>, deletes |-> <<>>, writes |-> <<>>,
     failures |-> {}, emitFailed |-> FALSE]

\* the call returns (ctrl.Result{}, nil)
ReturnOk(p) == [p EXCEPT !.pc = "done", !.result = "ok"]

\* the call returns (ctrl.Result{}, err) after the failure of the named call
ReturnErr(p, failed) ==
    [p EXCEPT !.pc = "done", !.result = "err", !.failures = @ \cup {failed}]

\* StartPass without the skip of the kube-system namespace
StartPassNoSkip(req) == [IdlePass EXCEPT !.req = req, !.pc = "get"]

\* entry of Reconcile, up to the Get
StartPass(req) ==
    IF req.Namespace = KubeSystem
    THEN ReturnOk([IdlePass EXCEPT !.req = req])
    ELSE [IdlePass EXCEPT !.req = req, !.pc = "get"]

\* AfterGet returning an error when the pod is not found
AfterGetNotFoundIsError(p, got, fail) ==
    IF fail THEN ReturnErr(p, "fetch")
    ELSE IF got = None THEN ReturnErr(p, "notfound")
    ELSE IF got[1].DeletionTimestamp THEN ReturnOk([p EXCEPT !.pod = got])
    ELSE IF got[1].Status.Phase = "Succeeded" \/ got[1].Status.Phase = "Failed"
    THEN ReturnOk([p EXCEPT !.pod = got])
    ELSE [p EXCEPT !.pod = got, !.pc = "list"]

\* AfterGet without the skip of the terminal phases
AfterGetNoPhaseCheck(p, got, fail) ==
    IF fail THEN ReturnErr(p, "fetch")
    ELSE IF got = None THEN ReturnOk(p)
    ELSE IF got[1].DeletionTimestamp THEN ReturnOk([p EXCEPT !.pod = got])
    ELSE [p EXCEPT !.pod = got, !.pc = "list"]

\* after r.Get: got is the pod found (None: NotFound), fail a transient error
AfterGet(p, got, fail) ==
    IF fail THEN ReturnErr(p, "fetch")
    ELSE IF got = None THEN ReturnOk(p)
    ELSE IF got[1].DeletionTimestamp THEN ReturnOk([p EXCEPT !.pod = got])
    ELSE IF got[1].Status.Phase = "Succeeded" \/ got[1].Status.Phase = "Failed"
    THEN ReturnOk([p EXCEPT !.pod = got])
    ELSE [p EXCEPT !.pod = got, !.pc = "list"]

\* Applicable without the skip of the disabled policies
ApplicableDisabledToo(policy, pod) ==
    ShouldApplyToNamespace(policy, pod.Namespace)

\* the two skips at the head of the loop over policies.Items
Applicable(policy, pod) ==
    /\ ShouldApplyToNamespace(policy, pod.Namespace)
    /\ ~IsDisabled(policy)

\* the loop over policies.Items from index from on: the index of the first policy
\* that is not skipped and has a violation (Len(list) + 1 when there is none)
RECURSIVE NextWork(_, _, _, _)
NextWork(list, pod, from, now) ==
    IF from > Len(list) THEN from
    ELSE IF /\ Applicable(list[from], pod)
            /\ checkPodViolations(pod, list[from], now) # <<>>
    THEN from
    ELSE NextWork(list, pod, from + 1, now)

\* history: the policies checkPodViolations is called for between two indices,
\* each with its mode and the number of violations it returned
RECURSIVE Evaluated(_, _, _, _, _)
Evaluated(list, pod, from, to, now) ==
    IF from > to \/ from > Len(list) THEN <<>>
    ELSE (IF Applicable(list[from], pod)
          THEN <<[policy |-> list[from].Name,
                  enforcing |-> IsEnforcing(list[from]),
                  n |-> Len(checkPodViolations(pod, list[from], now))]>>
          ELSE <<>>)
         \o Evaluated(list, pod, from + 1, to, now)

\* the loop over policies.Items from index from on, up to the next blocking call
EnterLoop(p, from, now) ==
    LET k == NextWork(p.list, p.pod[1], from, now)
        q == [p EXCEPT !.i = k,
                       !.evaluated = @ \o Evaluated(p.list, p.pod[1], from, k, now)]
    IN  IF k > Len(p.list)
        THEN ReturnOk(q)
        ELSE [q EXCEPT !.pc = "emit", !.policy = Some(p.list[k]),
                       !.violations = checkPodViolations(p.pod[1], p.list[k], now),
                       !.j = 1]

\* after r.List: items is the list returned, fail a transient error
AfterList(p, items, fail, now) ==
    IF fail THEN ReturnErr(p, "list")
    ELSE EnterLoop([p EXCEPT !.list = items], 1, now)

\* AfterEmit taking the action of an enforcing policy before the emission
AfterEmitActionFirst(p, url, delivered) ==
    IF IsEnforcing(p.policy[1])
    THEN [p EXCEPT !.wasTerminated = FALSE, !.pc = "delete"]
    ELSE [p EXCEPT !.events = Append(@, p.violations[p.j]),
                   !.emitFailed = @ \/ (url # "" /\ ~delivered),
                   !.wasTerminated = FALSE,
                   !.pc = "update"]

\* AfterEmit returning the error of an emission that was not delivered
AfterEmitAbortOnFailure(p, url, delivered) ==
    IF url # "" /\ ~delivered
    THEN ReturnErr([p EXCEPT !.events = Append(@, p.violations[p.j]),
                             !.emitFailed = TRUE], "emit")
    ELSE [p EXCEPT !.events = Append(@, p.violations[p.j]),
                   !.wasTerminated = FALSE,
                   !.pc = IF IsEnforcing(p.policy[1]) THEN "delete" ELSE "update"]

\* sendSecurityEvent and the test of policy.IsEnforcing() that follows it
AfterEmit(p, url, delivered) ==
    [p EXCEPT !.events = Append(@, p.violations[p.j]),
              !.emitFailed = @ \/ (url # "" /\ ~delivered),
              !.wasTerminated = FALSE,
              !.pc = IF IsEnforcing(p.policy[1]) THEN "delete" ELSE "update"]

\* AfterDelete going on to the status update after any failure of the delete
AfterDeleteErrorIgnored(p, outcome) ==
    [p EXCEPT !.deletes = Append(@, [event |-> p.violations[p.j],
                                     outcome |-> outcome]),
              !.pc = "update", !.wasTerminated = TRUE]

\* AfterDelete going on without recording the termination
AfterDeleteNotRecorded(p, outcome) ==
    LET q == [p EXCEPT !.deletes = Append(@, [event |-> p.violations[p.j],
                                              outcome |-> outcome])]
    IN  IF outcome = "error"
        THEN ReturnErr(q, "delete")
        ELSE [q EXCEPT !.pc = "update"]

\* AfterDelete returning the NotFound of the delete as an error
AfterDeleteNotFoundIsError(p, outcome) ==
    LET q == [p EXCEPT !.deletes = Append(@, [event |-> p.violations[p.j],
                                              outcome |-> outcome])]
    IN  IF outcome # "deleted"
        THEN ReturnErr(q, "delete")
        ELSE [q EXCEPT !.pc = "update", !.wasTerminated = TRUE]

\* after r.Delete: outcome is "deleted", "notfound" or "error"
AfterDelete(p, outcome) ==
    LET q == [p EXCEPT !.deletes = Append(@, [event |-> p.violations[p.j],
                                              outcome |-> outcome])]
    IN  IF outcome = "error"
        THEN ReturnErr(q, "delete")
        ELSE [q EXCEPT !.pc = "update", !.wasTerminated = TRUE]

\* updatePolicyStatus without the increment of ViolationsCount
updatePolicyStatusNoCount(policy, wasTerminated, now) ==
    LET stamped == [policy EXCEPT !.Status.LastEnforcementTime = now,
                                  !.Status.Phase = "Active"]
    IN  IF wasTerminated
        THEN [stamped EXCEPT !.Status.TerminationsCount = @ + 1,
                             !.Status.Message = [text |-> "Last termination at",
                                                 time |-> now]]
        ELSE stamped

\* updatePolicyStatus counting a termination in every invocation
updatePolicyStatusAlwaysTerminated(policy, wasTerminated, now) ==
    [policy EXCEPT !.Status.LastEnforcementTime = now,
                   !.Status.ViolationsCount = @ + 1,
                   !.Status.Phase = "Active",
                   !.Status.TerminationsCount = @ + 1,
                   !.Status.Message = [text |-> "Last termination at",
                                       time |-> now]]

\* updatePolicyStatus without the count of the termination
updatePolicyStatusViolationOnly(policy, wasTerminated, now) ==
    [policy EXCEPT !.Status.LastEnforcementTime = now,
                   !.Status.ViolationsCount = @ + 1,
                   !.Status.Phase = "Active"]

\* updatePolicyStatus: the in-memory change of the policy before the write
updatePolicyStatus(policy, wasTerminated, now) ==
    LET counted == [policy EXCEPT !.Status.LastEnforcementTime = now,
                                  !.Status.ViolationsCount = @ + 1,
                                  !.Status.Phase = "Active"]
    IN  IF wasTerminated
        THEN [counted EXCEPT !.Status.TerminationsCount = @ + 1,
                             !.Status.Message = [text |-> "Last termination at",
                                                 time |-> now]]
        ELSE counted

\* StatusUpdateOutcome without the comparison of the resourceVersion
StatusUpdateOutcomeLastWriterWins(stored, obj, fail) ==
    IF fail THEN "error"
    ELSE IF stored = None THEN "notfound"
    ELSE "ok"

\* r.Status().Update as the API server decides it: stored is the object it holds
\* (None: deleted); the write commits only when obj carries the stored
\* resourceVersion
StatusUpdateOutcome(stored, obj, fail) ==
    IF fail THEN "error"
    ELSE IF stored = None THEN "notfound"
    ELSE IF stored[1].ResourceVersion # obj.ResourceVersion THEN "conflict"
    ELSE "ok"

\* the stored object after a committed status write of obj
StatusCommitted(stored, obj) ==
    [stored EXCEPT !.Status = obj.Status, !.ResourceVersion = @ + 1]

\* the history kept by AfterStatusUpdate
WriteLogged(p, mine, outcome) ==
    [p EXCEPT !.policy = Some(mine),
              !.writes = Append(@, [policy |-> mine.Name,
                                    wasTerminated |-> p.wasTerminated,
                                    outcome |-> outcome]),
              !.failures = IF outcome \in {"error", "conflict"}
                           THEN @ \cup {"write"} ELSE @]

\* AfterStatusUpdate returning after the first policy that was written
AfterStatusUpdateFirstPolicyOnly(p, mine, outcome, now) ==
    LET q == WriteLogged(p, mine, outcome)
    IN  IF p.wasTerminated THEN ReturnOk(q)
        ELSE IF p.j < Len(p.violations) THEN [q EXCEPT !.pc = "emit", !.j = @ + 1]
        ELSE ReturnOk(q)

\* AfterStatusUpdate without the return that follows a termination
AfterStatusUpdateNoReturn(p, mine, outcome, now) ==
    IF p.j < Len(p.violations)
    THEN [WriteLogged(p, mine, outcome) EXCEPT !.pc = "emit", !.j = @ + 1]
    ELSE EnterLoop(WriteLogged(p, mine, outcome), p.i + 1, now)

\* AfterStatusUpdate leaving the loop over the violations after the first audit
AfterStatusUpdateOncePerPolicy(p, mine, outcome, now) ==
    IF p.wasTerminated THEN ReturnOk(WriteLogged(p, mine, outcome))
    ELSE EnterLoop(WriteLogged(p, mine, outcome), p.i + 1, now)

\* after updatePolicyStatus returns: mine is the pass's copy of the policy
AfterStatusUpdate(p, mine, outcome, now) ==
    LET q == WriteLogged(p, mine, outcome)
    IN  IF p.wasTerminated THEN ReturnOk(q)
        ELSE IF p.j < Len(p.violations) THEN [q EXCEPT !.pc = "emit", !.j = @ + 1]
        ELSE EnterLoop(q, p.i + 1, now)

-----------------------------------------------------------------------------
\* ShieldPolicyReconciler.Reconcile: the locals of one call.

\* RequeueAfter of a pass that completes, in seconds
RequeueAfterSeconds == 30

IdlePolicyPass ==
    [pc |-> "idle", req |-> "", policy |-> None, result |-> "none",
     requeueAfter |-> 0,
     \* history of the call
     generation |-> 0, writes |-> <<>>]

ReadyCondition(reason, now) ==
    [Type |-> "Ready", Status |-> "True", Reason |-> reason,
     LastTransitionTime |-> now]

\* InitializeStatus leaving ObservedGeneration as it was read
InitializeStatusNoGeneration(policy, now) ==
    [policy EXCEPT !.Status.Phase = "Active",
                   !.Status.Message = [text |-> "Policy is active and enforcing",
                                       time |-> 0],
                   !.Status.Conditions = <<ReadyCondition("PolicyActive", now)>>]

\* "Initialize status if not set": the in-memory change before the write
InitializeStatus(policy, now) ==
    [policy EXCEPT !.Status.Phase = "Active",
                   !.Status.ObservedGeneration = policy.Generation,
                   !.Status.Message = [text |-> "Policy is active and enforcing",
                                       time |-> 0],
                   !.Status.Conditions = <<ReadyCondition("PolicyActive", now)>>]

\* GenerationChangedStatus building the status anew instead of changing the one
\* that was read
GenerationChangedStatusFromZero(policy, now) ==
    [policy EXCEPT !.Status =
        [ZeroStatus EXCEPT !.Phase = policy.Status.Phase,
                           !.ObservedGeneration = policy.Generation,
                           !.Message = [text |-> "Policy configuration updated",
                                        time |-> 0],
                           !.Conditions = <<ReadyCondition("PolicyUpdated", now)>>]]

\* "Check if generation changed": the in-memory change before the write
GenerationChangedStatus(policy, now) ==
    [policy EXCEPT !.Status.ObservedGeneration = policy.Generation,
                   !.Status.Message = [text |-> "Policy configuration updated",
                                       time |-> 0],
                   !.Status.Conditions = <<ReadyCondition("PolicyUpdated", now)>>]

\* PolicyReturnRequeue without the RequeueAfter
PolicyReturnNoRequeue(p) == [p EXCEPT !.pc = "done", !.result = "ok"]

\* the call returns (ctrl.Result{RequeueAfter: 30 * time.Second}, nil)
PolicyReturnRequeue(p) ==
    [p EXCEPT !.pc = "done", !.result = "ok", !.requeueAfter = RequeueAfterSeconds]

\* the call returns (ctrl.Result{}, err)
PolicyReturnErr(p) == [p EXCEPT !.pc = "done", !.result = "err"]

\* CheckGeneration never taking the generation-changed branch
CheckGenerationIgnored(p, now) == PolicyReturnRequeue(p)

\* the test of the generation, up to the write it may lead to
CheckGeneration(p, now) ==
    IF p.policy[1].Generation # p.policy[1].Status.ObservedGeneration
    THEN [p EXCEPT !.pc = "changed",
                   !.policy = Some(GenerationChangedStatus(p.policy[1], now))]
    ELSE PolicyReturnRequeue(p)

\* after r.Get: got is the policy found (None: NotFound), fail a transient error
AfterPolicyGet(p, got, fail, now) ==
    IF fail THEN PolicyReturnErr(p)
    ELSE IF got = None THEN [p EXCEPT !.pc = "done", !.result = "ok"]
    ELSE IF got[1].Status.Phase = ""
    THEN [p EXCEPT !.pc = "init", !.generation = got[1].Generation,
                   !.policy = Some(InitializeStatus(got[1], now))]
    ELSE CheckGeneration([p EXCEPT !.policy = got,
                                   !.generation = got[1].Generation], now)

\* AfterInitUpdate going on after a failed write
AfterInitUpdateIgnoreError(p, mine, outcome, now) ==
    CheckGeneration([p EXCEPT !.policy = Some(mine), !.writes = Append(@, outcome)],
                    now)

\* after the status write of the initialisation
AfterInitUpdate(p, mine, outcome, now) ==
    LET q == [p EXCEPT !.policy = Some(mine), !.writes = Append(@, outcome)]
    IN  IF outcome # "ok" THEN PolicyReturnErr(q) ELSE CheckGeneration(q, now)

\* after the status write of the configuration change
AfterChangedUpdate(p, mine, outcome) ==
    LET q == [p EXCEPT !.policy = Some(mine), !.writes = Append(@, outcome)]
    IN  IF outcome # "ok" THEN PolicyReturnErr(q) ELSE PolicyReturnRequeue(q)

-----------------------------------------------------------------------------
\* The steps of a pod pass, each for some worker w.

\* the pod the API server stores under a request's identity, if any
StoredPod(req) == {pod \in pods : Request(pod) = req}

\* the policy the API server stores under a name (None: there is none)
StoredPolicy(name) ==
    IF name \in DOMAIN policies THEN Some(policies[name]) ELSE None

\* the stored policies after a status write of obj with the given outcome
StatusWrite(obj, outcome) ==
    IF outcome = "ok"
    THEN [policies EXCEPT ![obj.Name] = StatusCommitted(@, obj)]
    ELSE policies

\* the caller's object after the write: a committed write decodes the response
\* into it, a failed one leaves it as it was
Returned(obj, outcome) ==
    IF outcome = "ok" THEN StatusCommitted(policies[obj.Name], obj) ELSE obj

\* the orders in which r.List may return the stored policies
ListOrders ==
    {items \in [1..Cardinality(DOMAIN policies) -> DOMAIN policies] :
        \A a, b \in DOMAIN items : a # b => items[a] # items[b]}

\* the controller takes the next request off the queue and calls Reconcile
Start ==
    \E w \in DOMAIN pass :
        /\ pass[w].pc = "idle"
        /\ queue # <<>>
        /\ pass' = [pass EXCEPT ![w] = StartPass(Head(queue))]
        /\ queue' = Tail(queue)
        /\ UNCHANGED <<pods, policies, clock, faults, auditURL, calls, pqueue, ppass, det>>

\* r.Get(ctx, req.NamespacedName, pod) and the checks of the snapshot
GetPod ==
    \E w \in DOMAIN pass :
        /\ pass[w].pc = "get"
        /\ \E fail \in BOOLEAN :
            /\ fail => faults < MaxFaults
            /\ faults' = IF fail THEN faults + 1 ELSE faults
            /\ pass' = [pass EXCEPT ![w] =
                    AfterGet(@, IF StoredPod(@.req) = {} THEN None
                                ELSE Some(CHOOSE pod \in StoredPod(@.req) : TRUE), fail)]
        /\ UNCHANGED <<pods, policies, queue, clock, auditURL, calls, pqueue, ppass, det>>

\* r.List(ctx, policies) and the loop up to the first violation
ListPolicies ==
    \E w \in DOMAIN pass :
        /\ pass[w].pc = "list"
        /\ \E fail \in BOOLEAN, order \in ListOrders :
            /\ fail => faults < MaxFaults
            /\ faults' = IF fail THEN faults + 1 ELSE faults
            /\ pass' = [pass EXCEPT ![w] =
                    AfterList(@, [k \in DOMAIN order |-> policies[order[k]]], fail, clock)]
        /\ UNCHANGED <<pods, policies, queue, clock, auditURL, calls, pqueue, ppass, det>>

\* r.sendSecurityEvent(ctx, logger, violation)
SendEvent ==
    \E w \in DOMAIN pass :
        /\ pass[w].pc = "emit"
        /\ \E delivered \in BOOLEAN :
            pass' = [pass EXCEPT ![w] = AfterEmit(@, auditURL, delivered)]
        /\ UNCHANGED <<pods, policies, queue, clock, faults, auditURL, calls, pqueue, ppass, det>>

\* r.Delete(ctx, pod, client.GracePeriodSeconds(0))
DeletePod ==
    \E w \in DOMAIN pass :
        /\ pass[w].pc = "delete"
        /\ \E fail \in BOOLEAN :
            /\ fail => faults < MaxFaults
            /\ faults' = IF fail THEN faults + 1 ELSE faults
            /\ pods' = IF fail THEN pods ELSE pods \ StoredPod(pass[w].req)
            /\ pass' = [pass EXCEPT ![w] =
                    AfterDelete(@, IF fail THEN "error"
                                   ELSE IF StoredPod(@.req) = {} THEN "notfound"
                                   ELSE "deleted")]
        /\ UNCHANGED <<policies, queue, clock, auditURL, calls, pqueue, ppass, det>>

\* r.updatePolicyStatus(ctx, logger, &policy, wasTerminated) and the loop up to
\* the next violation
UpdatePolicyStatus ==
    \E w \in DOMAIN pass :
        /\ pass[w].pc = "update"
        /\ \E fail \in BOOLEAN :
            LET p == pass[w]
                mine == updatePolicyStatus(p.policy[1], p.wasTerminated, clock)
                outcome == StatusUpdateOutcome(StoredPolicy(mine.Name), mine, fail)
            IN  /\ fail => faults < MaxFaults
                /\ faults' = IF fail THEN faults + 1 ELSE faults
                /\ policies' = StatusWrite(mine, outcome)
                /\ pass' = [pass EXCEPT ![w] =
                        AfterStatusUpdate(p, Returned(mine, outcome), outcome, clock)]
                /\ calls' = [calls EXCEPT ![mine.Name] = @ + 1]
        /\ UNCHANGED <<pods, queue, clock, auditURL, pqueue, ppass, det>>

\* Reconcile has returned: the controller requeues the request after an error
Finish ==
    \E w \in DOMAIN pass :
        /\ pass[w].pc = "done"
        /\ queue' = IF pass[w].result = "err" THEN Append(queue, pass[w].req) ELSE queue
        /\ pass' = [pass EXCEPT ![w] = IdlePass]
        /\ UNCHANGED <<pods, policies, clock, faults, auditURL, calls, pqueue, ppass, det>>

-----------------------------------------------------------------------------
\* The environment.

\* a workload is removed by somebody else (its owner, the kubelet, a user); a
\* removal shows to a pass only in its next Get or Delete of that workload, so
\* the removals modelled are those right before such a call
PodVanishes ==
    /\ \E w \in DOMAIN pass :
        /\ pass[w].pc \in {"get", "delete"}
        /\ StoredPod(pass[w].req) # {}
        /\ pods' = pods \ StoredPod(pass[w].req)
    /\ UNCHANGED <<policies, queue, pass, clock, faults, auditURL, calls, pqueue, ppass, det>>

\* time passes
Tick ==
    /\ clock < MaxClock
    /\ clock' = clock + 1
    /\ UNCHANGED <<pods, policies, queue, pass, faults, auditURL, calls, pqueue, ppass, det>>

\* the spec of a policy is edited: the API server bumps its generation
EditPolicy ==
    /\ \E name \in DOMAIN policies, spec \in ConcurrentMenu :
        /\ policies[name].Generation < MaxGeneration
        /\ spec # policies[name].Spec
        /\ policies' = [policies EXCEPT ![name].Spec = spec,
                                        ![name].Generation = @ + 1,
                                        ![name].ResourceVersion = @ + 1]
        /\ pqueue' = IF \E k \in DOMAIN pqueue : pqueue[k] = name
                     THEN pqueue ELSE Append(pqueue, name)
    /\ UNCHANGED <<pods, queue, pass, clock, faults, auditURL, calls, ppass, det>>

\* a policy is deleted
DeletePolicy ==
    /\ \E name \in DOMAIN policies :
        /\ policies' = [n \in DOMAIN policies \ {name} |-> policies[n]]
        /\ pqueue' = IF \E k \in DOMAIN pqueue : pqueue[k] = name
                     THEN pqueue ELSE Append(pqueue, name)
    /\ UNCHANGED <<pods, queue, pass, clock, faults, auditURL, calls, ppass, det>>

-----------------------------------------------------------------------------
\* The steps of a policy pass.

\* the controller takes the next policy off its queue and calls Reconcile
PolicyStart ==
    /\ ppass.pc = "idle"
    /\ pqueue # <<>>
    /\ ppass' = [IdlePolicyPass EXCEPT !.pc = "get", !.req = Head(pqueue)]
    /\ pqueue' = Tail(pqueue)
    /\ UNCHANGED <<pods, policies, queue, pass, clock, faults, auditURL, calls, det>>

\* r.Get(ctx, req.NamespacedName, policy) and the tests that follow it
PolicyGet ==
    /\ ppass.pc = "get"
    /\ \E fail \in BOOLEAN :
        /\ fail => faults < MaxFaults
        /\ faults' = IF fail THEN faults + 1 ELSE faults
        /\ ppass' = AfterPolicyGet(ppass, StoredPolicy(ppass.req), fail, clock)
    /\ UNCHANGED <<pods, policies, queue, pass, clock, auditURL, calls, pqueue, det>>

\* r.Status().Update of the initialised status
PolicyInitUpdate ==
    /\ ppass.pc = "init"
    /\ \E fail \in BOOLEAN :
        LET mine == ppass.policy[1]
            outcome == StatusUpdateOutcome(StoredPolicy(mine.Name), mine, fail)
        IN  /\ fail => faults < MaxFaults
            /\ faults' = IF fail THEN faults + 1 ELSE faults
            /\ policies' = StatusWrite(mine, outcome)
            /\ ppass' = AfterInitUpdate(ppass, Returned(mine, outcome), outcome, clock)
    /\ UNCHANGED <<pods, queue, pass, clock, auditURL, calls, pqueue, det>>

\* r.Status().Update after a configuration change
PolicyChangedUpdate ==
    /\ ppass.pc = "changed"
    /\ \E fail \in BOOLEAN :
        LET mine == ppass.policy[1]
            outcome == StatusUpdateOutcome(StoredPolicy(mine.Name), mine, fail)
        IN  /\ fail => faults < MaxFaults
            /\ faults' = IF fail THEN faults + 1 ELSE faults
            /\ policies' = StatusWrite(mine, outcome)
            /\ ppass' = AfterChangedUpdate(ppass, Returned(mine, outcome), outcome)
    /\ UNCHANGED <<pods, queue, pass, clock, auditURL, calls, pqueue, det>>

\* Reconcile has returned: the controller requeues the policy after an error or
\* when the result asks for it
PolicyFinish ==
    /\ ppass.pc = "done"
    /\ pqueue' = IF /\ ppass.result = "err" \/ ppass.requeueAfter > 0
                    /\ ~\E k \in DOMAIN pqueue : pqueue[k] = ppass.req
                 THEN Append(pqueue, ppass.req) ELSE pqueue
    /\ ppass' = IdlePolicyPass
    /\ UNCHANGED <<pods, policies, queue, pass, clock, faults, auditURL, calls, det>>

-----------------------------------------------------------------------------
\* Specifications.

AuditService == "http://audit-service:8000"

\* the sequences of n distinct requests for pods of a set
RequestSeqs(from, n) ==
    {q \in [1..n -> {Request(pod) : pod \in from}] :
        \A a, b \in 1..n : a # b => q[a] # q[b]}

\* the policy sets of the single-worker specification: none, one or two policies
\* with specs of the menu
PolicySets ==
    UNION {{[name \in names |-> NewPolicy(name, specs[name])] :
                specs \in [names -> PolicyMenu]} :
           names \in {{}, {"pa"}, {"pa", "pb"}}}

\* One worker, every workload and every combination of policies; the clock
\* stands still.
InitPass ==
    /\ \E n \in 1..MaxQueue : queue \in RequestSeqs(PodCatalog, n)
    /\ pods = {pod \in PodCatalog : \E k \in DOMAIN queue : queue[k] = Request(pod)}
    /\ policies \in PolicySets
    /\ pass = [w \in {"w1"} |-> IdlePass]
    /\ clock = 1
    /\ faults = 0
    /\ auditURL \in {"", AuditService}
    /\ calls = [name \in PolicyNames |-> 0]
    /\ pqueue = <<>>
    /\ ppass = IdlePolicyPass
    /\ det = None

NextPass ==
    \/ Start
    \/ GetPod
    \/ ListPolicies
    \/ SendEvent
    \/ DeletePod
    \/ UpdatePolicyStatus
    \/ Finish
    \/ PodVanishes

SpecPass == InitPass /\ [][NextPass]_vars

\* the workloads of the concurrent specification: each has exactly one violation
\* under each of its policies
ConcurrentPods == {pod \in PodCatalog : pod.Name \in {"priv", "hostnet"}}

ConcurrentPolicySets ==
    {[name \in {"pa"} |-> NewPolicy(name, spec)] : spec \in ConcurrentMenu}

\* Two pod workers and the policy worker, two workloads, no transient failure
\* and no passing of time.
Init ==
    /\ queue \in {q \in RequestSeqs(ConcurrentPods, 2) : q[1].Name = "priv"}
    /\ pods = {pod \in PodCatalog : \E k \in DOMAIN queue : queue[k] = Request(pod)}
    /\ policies \in ConcurrentPolicySets
    /\ pass = [w \in {"w1", "w2"} |-> IdlePass]
    /\ clock = 1
    /\ faults = MaxFaults
    /\ auditURL = AuditService
    /\ calls = [name \in PolicyNames |-> 0]
    /\ pqueue = <<"pa">>
    /\ ppass = IdlePolicyPass
    /\ det = None

Next ==
    \/ Start
    \/ GetPod
    \/ ListPolicies
    \/ SendEvent
    \/ DeletePod
    \/ UpdatePolicyStatus
    \/ Finish
    \/ PolicyStart
    \/ PolicyGet
    \/ PolicyInitUpdate
    \/ PolicyChangedUpdate
    \/ PolicyFinish
    \/ EditPolicy
    \/ DeletePolicy

Spec == Init /\ [][Next]_vars

-----------------------------------------------------------------------------
\* The policy controller on its own: one or two policies, their spec edited and
\* the policies deleted while the worker reconciles them, transient failures.

PolicyControllerSets ==
    UNION {{[name \in names |-> NewPolicy(name, specs[name])] :
                specs \in [names -> ConcurrentMenu]} :
           names \in {{"pa"}, {"pa", "pb"}}}

InitPolicy ==
    /\ policies \in PolicyControllerSets
    /\ pqueue = IF DOMAIN policies = {"pa"} THEN <<"pa">> ELSE <<"pa", "pb">>
    /\ ppass = IdlePolicyPass
    /\ pods = {}
    /\ queue = <<>>
    /\ pass = [w \in {} |-> IdlePass]
    /\ clock = 1
    /\ faults = 0
    /\ auditURL = AuditService
    /\ calls = [name \in PolicyNames |-> 0]
    /\ det = None

NextPolicy ==
    \/ PolicyStart
    \/ PolicyGet
    \/ PolicyInitUpdate
    \/ PolicyChangedUpdate
    \/ PolicyFinish
    \/ EditPolicy
    \/ DeletePolicy

\* The worker of the controller keeps taking requests off its queue, every API
\* call returns, and a request returned with RequeueAfter or with an error is
\* added to the queue again: each step of the policy pass is taken when it stays
\* possible.
SpecPolicy ==
    /\ InitPolicy
    /\ [][NextPolicy]_vars
    /\ WF_vars(PolicyStart)
    /\ WF_vars(PolicyGet)
    /\ WF_vars(PolicyInitUpdate)
    /\ WF_vars(PolicyChangedUpdate)
    /\ WF_vars(PolicyFinish)

-----------------------------------------------------------------------------
\* One worker and its retries: a workload of the concurrent specification, one
\* or two policies, transient failures of the API calls; the clock stands still.

InitRetry ==
    /\ \E n \in 1..MaxQueue : queue \in RequestSeqs(ConcurrentPods, n)
    /\ pods = {pod \in PodCatalog : \E k \in DOMAIN queue : queue[k] = Request(pod)}
    /\ policies \in PolicyControllerSets
    /\ pass = [w \in {"w1"} |-> IdlePass]
    /\ clock = 1
    /\ faults = 0
    /\ auditURL = AuditService
    /\ calls = [name \in PolicyNames |-> 0]
    /\ pqueue = <<>>
    /\ ppass = IdlePolicyPass
    /\ det = None

\* The worker keeps taking requests off its queue and every call of a pass
\* returns: each step of the pass is taken when it stays possible.
SpecRetry ==
    /\ InitRetry
    /\ [][NextPass]_vars
    /\ WF_vars(Start)
    /\ WF_vars(GetPod)
    /\ WF_vars(ListPolicies)
    /\ WF_vars(SendEvent)
    /\ WF_vars(DeletePod)
    /\ WF_vars(UpdatePolicyStatus)
    /\ WF_vars(Finish)

-----------------------------------------------------------------------------
\* checkPodViolations on its own: every workload against one policy of any mode.

DetectMenu ==
    {PolicySpec(block, allowed, mode, <<>>) :
        block \in BOOLEAN,
        allowed \in {<<>>, <<DockerIO>>, <<DockerIO, Wildcard>>, <<FirstPart(ImgMyReg)>>},
        mode \in {"", "Enforce", "Audit", "Disabled", "Warn"}}

\* The workloads of the stand-alone detector: those of the catalog, and two on
\* the host network with no container and with three clean ones.
DetectCatalog ==
    PodCatalog \cup
    { Pod("bare", "default", TRUE, <<>>, <<>>, "Running", FALSE),
      Pod("trio", "default", TRUE,
          <<CleanContainer,
            Container("side", ImgMyReg, SecurityContext(Some(FALSE), Some(1000)))>>,
          <<Container("init", ImgLibrary, SecurityContext(None, None))>>,
          "Running", FALSE) }

InitDetect ==
    /\ det \in {Some([pod |-> pod, policy |-> NewPolicy("pa", spec), outs |-> <<>>,
                      modes |-> None]) :
                    pod \in DetectCatalog, spec \in DetectMenu}
    /\ pods = {}
    /\ policies = [name \in {} |-> NewPolicy(name, PolicySpec(FALSE, <<>>, "", <<>>))]
    /\ queue = <<>>
    /\ pass = [w \in {} |-> IdlePass]
    /\ clock = 1
    /\ faults = 0
    /\ auditURL = ""
    /\ calls = [name \in PolicyNames |-> 0]
    /\ pqueue = <<>>
    /\ ppass = IdlePolicyPass

\* r.checkPodViolations(ctx, logger, pod, policy)
Detect ==
    /\ det # None
    /\ Len(det[1].outs) < MaxRuns
    /\ det' = Some([det[1] EXCEPT !.outs =
                        Append(@, checkPodViolations(det[1].pod, det[1].policy, clock))])
    /\ UNCHANGED <<pods, policies, queue, pass, clock, faults, auditURL, calls,
                   pqueue, ppass>>

\* policy.IsEnforcing(), policy.IsAuditing(), policy.IsDisabled() and
\* policy.ShouldBlockPrivileged()
ModePredicates ==
    /\ det # None
    /\ det[1].modes = None
    /\ det' = Some([det[1] EXCEPT !.modes =
                        Some([IsEnforcing |-> IsEnforcing(det[1].policy),
                              IsAuditing |-> IsAuditing(det[1].policy),
                              IsDisabled |-> IsDisabled(det[1].policy),
                              ShouldBlockPrivileged |->
                                  ShouldBlockPrivileged(det[1].policy)])])
    /\ UNCHANGED <<pods, policies, queue, pass, clock, faults, auditURL, calls,
                   pqueue, ppass>>

NextDetect == Detect \/ Tick \/ ModePredicates

SpecDetect == InitDetect /\ [][NextDetect]_vars

-----------------------------------------------------------------------------
\* extractRegistry and IsRegistryAllowed on their own: every image reference up
\* to a length, every list of allowed registries up to a length.

\* the characters of the image references: a letter and the three characters
\* extractRegistry looks for
ImageChars == {"a", ".", ":", "/"}

ImageMenu ==
    UNION {[1..n -> ImageChars] : n \in 0..MaxLen}
    \cup {ImgNginx, ImgMyRegistry, ImgLibraryNginx, ImgLocalhost}

RegistryMenu == {DockerIO, Wildcard, MyIO, <<>>}

AllowedMenu == UNION {[1..n -> RegistryMenu] : n \in 0..MaxAllowed}

\* one call: of extractRegistry on image, or of IsRegistryAllowed on registry
\* for a policy with the list allowed; out is what it returned
RegistryCall(kind, image, allowed, registry) ==
    Some([kind |-> kind, image |-> image, allowed |-> allowed,
          registry |-> registry, out |-> None])

InitRegistry ==
    /\ det \in {RegistryCall("extract", image, <<>>, <<>>) : image \in ImageMenu}
              \cup {RegistryCall("allow", <<>>, allowed, registry) :
                        allowed \in AllowedMenu,
                        registry \in RegistryMenu \cup {EvilIO}}
    /\ pods = {}
    /\ policies = [name \in {} |-> NewPolicy(name, PolicySpec(FALSE, <<>>, "", <<>>))]
    /\ queue = <<>>
    /\ pass = [w \in {} |-> IdlePass]
    /\ clock = 1
    /\ faults = 0
    /\ auditURL = ""
    /\ calls = [name \in PolicyNames |-> 0]
    /\ pqueue = <<>>
    /\ ppass = IdlePolicyPass

\* extractRegistry(container.Image)
ExtractRegistry ==
    /\ det # None
    /\ det[1].kind = "extract"
    /\ det[1].out = None
    /\ det' = Some([det[1] EXCEPT !.out = Some(extractRegistry(det[1].image))])
    /\ UNCHANGED <<pods, policies, queue, pass, clock, faults, auditURL, calls,
                   pqueue, ppass>>

\* policy.IsRegistryAllowed(registry)
CheckRegistry ==
    /\ det # None
    /\ det[1].kind = "allow"
    /\ det[1].out = None
    /\ det' = Some([det[1] EXCEPT !.out =
                        Some(IsRegistryAllowed(
                                NewPolicy("pa", PolicySpec(FALSE, det[1].allowed, "", <<>>)),
                                det[1].registry))])
    /\ UNCHANGED <<pods, policies, queue, pass, clock, faults, auditURL, calls,
                   pqueue, ppass>>

NextRegistry == ExtractRegistry \/ CheckRegistry

SpecRegistry == InitRegistry /\ [][NextRegistry]_vars

-----------------------------------------------------------------------------
\* Properties.

\* the status writes a pass attempted for a policy
WritesFor(p, name) ==
    Cardinality({k \in DOMAIN p.writes : p.writes[k].policy = name})

\* C1: a delete request is issued only for a PRIVILEGED_CONTAINER or
\* DISALLOWED_REGISTRY violation under an enforcing policy, never for a
\* HOST_NETWORK or ROOT_USER violation.
C1_DeleteOnlyForEnforceable ==
    \A w \in DOMAIN pass : \A k \in DOMAIN pass[w].deletes :
        /\ pass[w].deletes[k].event.EventType
                \in {"PRIVILEGED_CONTAINER", "DISALLOWED_REGISTRY"}
        /\ IsEnforcing(pass[w].policy[1])

\* C2: two pod passes for two workloads, each contributing one violation to
\* policy pa while nobody else writes it, leave its violationsCount two higher
\* than the 0 it started at.
C2_NoLostUpdates ==
    ( /\ \A w \in DOMAIN pass :
            /\ pass[w].pc = "done"
            /\ Len(pass[w].writes) = 1
            /\ pass[w].writes[1].policy = "pa"
      /\ "pa" \in DOMAIN policies
      /\ policies["pa"].Generation = 1
      /\ ppass.pc = "idle" /\ pqueue = <<"pa">> )
    => policies["pa"].Status.ViolationsCount = Cardinality(DOMAIN pass)

\* C3: a pass that returned success has followed every status write rejected by
\* a conflict with a later write of the same policy that committed.
C3_ConflictIsRetried ==
    \A w \in DOMAIN pass :
        (pass[w].pc = "done" /\ pass[w].result = "ok")
        => \A k \in DOMAIN pass[w].writes :
              pass[w].writes[k].outcome = "conflict"
              => \E m \in DOMAIN pass[w].writes :
                    /\ m > k
                    /\ pass[w].writes[m].policy = pass[w].writes[k].policy
                    /\ pass[w].writes[m].outcome = "ok"

\* C4: a pass in which a fetch, a list, a status write or a delete failed with a
\* failure other than NotFound returns an error.
C4_FailuresAreReturned ==
    \A w \in DOMAIN pass :
        (pass[w].pc = "done" /\ pass[w].failures # {}) => pass[w].result = "err"

\* C5: one pass issues at most one delete request.
C5_AtMostOneDelete ==
    \A w \in DOMAIN pass : Len(pass[w].deletes) <= 1

\* a pass over two applicable enforcing policies, the first with several
\* violations, has returned after its one delete
C5_Witness ==
    \E w \in DOMAIN pass :
        /\ pass[w].pc = "done"
        /\ Len(pass[w].deletes) = 1
        /\ Len(pass[w].violations) >= 2
        /\ Len(pass[w].list) = 2
        /\ \A k \in DOMAIN pass[w].list :
              /\ IsEnforcing(pass[w].list[k])
              /\ Applicable(pass[w].list[k], pass[w].pod[1])
              /\ checkPodViolations(pass[w].pod[1], pass[w].list[k], 1) # <<>>

C7_SystemNamespaceNeverEvaluated ==
    /\ \A w \in DOMAIN pass :
          pass[w].req.Namespace = KubeSystem
          => /\ pass[w].pc = "done" /\ pass[w].result = "ok"
             /\ pass[w].pod = None /\ pass[w].list = <<>>
             /\ pass[w].evaluated = <<>> /\ pass[w].events = <<>>
             /\ pass[w].deletes = <<>> /\ pass[w].writes = <<>>
    /\ \A name \in DOMAIN policies :
          ~ShouldApplyToNamespace(policies[name], KubeSystem)

\* a pass for a kube-system workload has returned while a stored policy lists
\* kube-system in its targetNamespaces
C7_Witness ==
    \E w \in DOMAIN pass, name \in DOMAIN policies :
        /\ pass[w].req.Namespace = KubeSystem
        /\ pass[w].pc = "done"
        /\ \E k \in DOMAIN policies[name].Spec.TargetNamespaces :
              policies[name].Spec.TargetNamespaces[k] = KubeSystem

\* the snapshot a pass fetched is terminating or in a terminal phase
TerminalSnapshot(p) ==
    /\ p.pod # None
    /\ \/ p.pod[1].DeletionTimestamp
       \/ p.pod[1].Status.Phase \in {"Succeeded", "Failed"}

\* C8: a pass whose snapshot is terminating or in phase Succeeded or Failed
\* returns success right after the fetch: no list, no evaluation, no event, no
\* delete, no status write.
C8_TerminalSnapshotNeverEvaluated ==
    \A w \in DOMAIN pass :
        TerminalSnapshot(pass[w])
        => /\ pass[w].pc = "done" /\ pass[w].result = "ok"
           /\ pass[w].list = <<>> /\ pass[w].evaluated = <<>>
           /\ pass[w].events = <<>> /\ pass[w].deletes = <<>>
           /\ pass[w].writes = <<>>

\* a pass has fetched a snapshot in phase Failed that a stored enforcing policy
\* would find in violation
C8_Witness ==
    \E w \in DOMAIN pass, name \in DOMAIN policies :
        /\ pass[w].pod # None
        /\ pass[w].pod[1].Status.Phase = "Failed"
        /\ pass[w].pc = "done"
        /\ IsEnforcing(policies[name])
        /\ Applicable(policies[name], pass[w].pod[1])
        /\ checkPodViolations(pass[w].pod[1], policies[name], clock) # <<>>

C10_TerminationsOnlyOnTerminate ==
    [][\A name \in (DOMAIN policies) \cap (DOMAIN policies') :
          /\ policies'[name].Status.TerminationsCount
                >= policies[name].Status.TerminationsCount
          /\ policies'[name].Status.TerminationsCount
                > policies[name].Status.TerminationsCount
             => \E w \in DOMAIN pass :
                   /\ pass[w].pc = "update"
                   /\ pass[w].policy[1].Name = name
                   /\ pass[w].violations[pass[w].j].Action = "TERMINATED"]_vars

\* C11: in every interleaving of pod passes and policy passes that write the
\* status of the same policy, no step lowers its stored violationsCount or its
\* stored terminationsCount, so each is at least every value it held earlier.
C11_CountersNeverDecrease ==
    [][\A name \in (DOMAIN policies) \cap (DOMAIN policies') :
          /\ policies'[name].Status.ViolationsCount
                >= policies[name].Status.ViolationsCount
          /\ policies'[name].Status.TerminationsCount
                >= policies[name].Status.TerminationsCount]_vars

\* the policy pass and a pod pass have both committed a status write of pa, the
\* counters are above zero, and a pod pass lost a write to a conflict
C11_Witness ==
    /\ "pa" \in DOMAIN policies
    /\ policies["pa"].Status.Conditions # <<>>
    /\ policies["pa"].Status.ViolationsCount >= 1
    /\ policies["pa"].Status.TerminationsCount >= 1
    /\ \E w \in DOMAIN pass : \E k \in DOMAIN pass[w].writes :
          pass[w].writes[k].outcome = "conflict"

\* C12: detection and enforcement do not depend on the emission.  Whether the
\* emission is disabled (no URL), delivered or not delivered (failure, timeout),
\* the pass continues from sendSecurityEvent in the same state, so the deletes,
\* the status writes and the outcome that follow are the same; a pass that has
\* returned has handled every violation it emitted (a status write, or the
\* delete that failed), and it returned an error only for a failed fetch, list
\* or delete.
C12_EnforcementIndependentOfEmission ==
    \A w \in DOMAIN pass :
        /\ pass[w].pc = "emit"
           => \A url \in {"", AuditService}, delivered \in BOOLEAN :
                 [AfterEmit(pass[w], url, delivered) EXCEPT !.emitFailed = FALSE]
                    = [AfterEmit(pass[w], "", TRUE) EXCEPT !.emitFailed = FALSE]
        /\ pass[w].pc = "done"
           => /\ Len(pass[w].events)
                    = Len(pass[w].writes)
                      + (IF "delete" \in pass[w].failures THEN 1 ELSE 0)
              /\ pass[w].result = "err"
                    <=> pass[w].failures \cap {"fetch", "list", "delete"} # {}

\* a pass whose emission was not delivered has deleted the workload, committed
\* the status write and returned success
C12_Witness ==
    \E w \in DOMAIN pass :
        /\ pass[w].pc = "done" /\ pass[w].result = "ok"
        /\ pass[w].emitFailed
        /\ Len(pass[w].deletes) = 1 /\ pass[w].deletes[1].outcome = "deleted"
        /\ Len(pass[w].writes) = 1 /\ pass[w].writes[1].outcome = "ok"

\* the pass has returned from its fetch without a pod: the fetch reported
\* NotFound or failed
FetchGaveNothing(p) ==
    p.pc = "done" /\ p.req.Namespace # KubeSystem /\ p.pod = None

\* C13: a pass whose fetch reports NotFound returns success, a pass whose fetch
\* fails for another reason returns an error, and in both the pass has listed no
\* policy, emitted no event, issued no delete and written no status.
C13_FetchOutcomes ==
    \A w \in DOMAIN pass :
        FetchGaveNothing(pass[w])
        => /\ pass[w].result = IF "fetch" \in pass[w].failures THEN "err" ELSE "ok"
           /\ pass[w].failures \subseteq {"fetch"}
           /\ pass[w].list = <<>> /\ pass[w].evaluated = <<>>
           /\ pass[w].events = <<>> /\ pass[w].deletes = <<>>
           /\ pass[w].writes = <<>>

\* the workload was removed between the notification and the fetch, under an
\* enforcing policy that would have found it in violation: the pass returned
\* success
C13_Witness ==
    \E w \in DOMAIN pass, name \in DOMAIN policies, pod \in PodCatalog :
        /\ FetchGaveNothing(pass[w])
        /\ pass[w].result = "ok"
        /\ Request(pod) = pass[w].req
        /\ pods = {}
        /\ IsEnforcing(policies[name])
        /\ Applicable(policies[name], pod)
        /\ checkPodViolations(pod, policies[name], clock) # <<>>

\* C14: a delete that finds the workload already gone counts as a termination.
\* The pass continues from it as from a delete that succeeded (same state, but
\* for the outcome kept in the history): wasTerminated is true in the status
\* update that follows, which adds one to the terminationsCount it writes, and
\* Reconcile returns success.
C14_DeleteNotFoundIsSuccess ==
    \A w \in DOMAIN pass :
        /\ pass[w].pc = "delete"
           => [AfterDelete(pass[w], "notfound") EXCEPT !.deletes = <<>>]
                = [AfterDelete(pass[w], "deleted") EXCEPT !.deletes = <<>>]
        /\ \A k \in DOMAIN pass[w].deletes :
              pass[w].deletes[k].outcome = "notfound"
              => /\ pass[w].pc \in {"update", "done"}
                 /\ "delete" \notin pass[w].failures
                 /\ pass[w].pc = "update"
                    => /\ pass[w].wasTerminated
                       /\ updatePolicyStatus(pass[w].policy[1], pass[w].wasTerminated,
                                             clock).Status.TerminationsCount
                            = pass[w].list[pass[w].i].Status.TerminationsCount + 1
                 /\ pass[w].pc = "done"
                    => /\ pass[w].result = "ok"
                       /\ pass[w].writes # <<>>
                       /\ pass[w].writes[Len(pass[w].writes)].wasTerminated
                       /\ pass[w].writes[Len(pass[w].writes)].policy
                            = pass[w].deletes[k].event.PolicyName

\* the workload was removed by somebody else right before the delete; the pass
\* has committed the status write of the termination and returned success
C14_Witness ==
    \E w \in DOMAIN pass :
        /\ pass[w].pc = "done" /\ pass[w].result = "ok"
        /\ Len(pass[w].deletes) = 1 /\ pass[w].deletes[1].outcome = "notfound"
        /\ Len(pass[w].writes) = 1 /\ pass[w].writes[1].outcome = "ok"
        /\ pass[w].writes[1].wasTerminated
        /\ policies[pass[w].writes[1].policy].Status.TerminationsCount = 1

\* pod.Spec.Containers followed by pod.Spec.InitContainers
AllContainers(pod) == pod.Spec.Containers \o pod.Spec.InitContainers

\* securityContext.privileged is set and true
Privileged(container) ==
    /\ container.SecurityContext # None
    /\ container.SecurityContext[1].Privileged = Some(TRUE)

\* securityContext.runAsUser is set and 0
RunsAsRoot(container) ==
    /\ container.SecurityContext # None
    /\ container.SecurityContext[1].RunAsUser = Some(0)

\* the registry of an image is not in a non-empty allowedRegistries that has no
\* wildcard
Disallowed(policy, image) ==
    /\ policy.Spec.AllowedRegistries # <<>>
    /\ \A k \in DOMAIN policy.Spec.AllowedRegistries :
          policy.Spec.AllowedRegistries[k] \notin {extractRegistry(image), Wildcard}

\* the only issue of the workload under the policy is one privileged container
OnlyPrivileged(pod, policy) ==
    /\ ~pod.Spec.HostNetwork
    /\ Cardinality({k \in DOMAIN AllContainers(pod) :
                        Privileged(AllContainers(pod)[k])}) = 1
    /\ \A k \in DOMAIN AllContainers(pod) :
          /\ ~RunsAsRoot(AllContainers(pod)[k])
          /\ ~Disallowed(policy, AllContainers(pod)[k].Image)

\* the events a pass emitted for a policy
EventsFor(p, name) ==
    SelectSeq(p.events, LAMBDA e : e.PolicyName = name)

\* scenario A for the policy at index m of the list of pass p: one
\* PRIVILEGED_CONTAINER violation of severity CRITICAL with action Terminate,
\* one delete request for the workload, for that violation, and a stored
\* terminationsCount one above the listed one
ScenarioA(p, m) ==
    /\ Len(EventsFor(p, p.list[m].Name)) = 1
    /\ EventsFor(p, p.list[m].Name)[1].EventType = "PRIVILEGED_CONTAINER"
    /\ EventsFor(p, p.list[m].Name)[1].Severity = "CRITICAL"
    /\ EventsFor(p, p.list[m].Name)[1].Action = "TERMINATED"
    /\ Len(p.deletes) = 1
    /\ p.deletes[1].event = EventsFor(p, p.list[m].Name)[1]
    /\ p.deletes[1].event.PodName = p.req.Name
    /\ policies[p.list[m].Name].Status.TerminationsCount
            = p.list[m].Status.TerminationsCount + 1

\* the policy at index m of the list of pass p is one of scenario A for the
\* workload of the pass
ScenarioAPolicy(p, m) ==
    /\ Applicable(p.list[m], p.pod[1])
    /\ p.list[m].Spec.BlockPrivileged
    /\ p.list[m].Spec.EnforcementMode \in {"", "Enforce"}
    /\ OnlyPrivileged(p.pod[1], p.list[m])

AllAudit(p) ==
    /\ p.pod # None
    /\ p.pc \in {"emit", "delete", "update", "done"}
    /\ "list" \notin p.failures
    /\ \A m \in DOMAIN p.list :
          Applicable(p.list[m], p.pod[1]) => p.list[m].Spec.EnforcementMode = "Audit"

NoContainerIssue(pod, policy) ==
    \A k \in DOMAIN AllContainers(pod) :
        /\ ~Privileged(AllContainers(pod)[k])
        /\ ~RunsAsRoot(AllContainers(pod)[k])
        /\ ~Disallowed(policy, AllContainers(pod)[k].Image)

Listed(policy, image) ==
    \E k \in DOMAIN policy.Spec.AllowedRegistries :
        policy.Spec.AllowedRegistries[k] = extractRegistry(image)

\* the DISALLOWED_REGISTRY violations of one detector output
RegistryEvents(out) ==
    SelectSeq(out, LAMBDA e : e.EventType = "DISALLOWED_REGISTRY")

\* C18: under a policy whose allowedRegistries is empty, checkPodViolations
\* returns no DISALLOWED_REGISTRY violation; under one whose allowedRegistries
\* is not empty and has no wildcard, it returns exactly one, of severity HIGH,
\* for each container (init containers included) whose image's registry is not
\* listed, and none for the others.
C18_ScenarioCRegistry ==
    ( /\ det # None
      /\ \A k \in DOMAIN det[1].policy.Spec.AllowedRegistries :
            det[1].policy.Spec.AllowedRegistries[k] # Wildcard )
    => \A r \in DOMAIN det[1].outs :
          LET found == RegistryEvents(det[1].outs[r])
              containers == AllContainers(det[1].pod)
              expected == {c \in DOMAIN containers :
                              /\ det[1].policy.Spec.AllowedRegistries # <<>>
                              /\ ~Listed(det[1].policy, containers[c].Image)}
          IN  /\ Len(found) = Cardinality(expected)
              /\ \A c \in DOMAIN containers :
                    Cardinality({k \in DOMAIN found :
                                    /\ found[k].Container = containers[c].Name
                                    /\ found[k].Image = containers[c].Image
                                    /\ found[k].Severity = "HIGH"})
                        = IF c \in expected THEN 1 ELSE 0

\* the detector has run for a workload with a container of a listed registry and
\* an init container of a registry that is not listed
C18_Witness ==
    /\ det # None
    /\ det[1].policy.Spec.AllowedRegistries # <<>>
    /\ \A k \in DOMAIN det[1].policy.Spec.AllowedRegistries :
          det[1].policy.Spec.AllowedRegistries[k] # Wildcard
    /\ \E c \in DOMAIN det[1].pod.Spec.Containers :
          Listed(det[1].policy, det[1].pod.Spec.Containers[c].Image)
    /\ \E c \in DOMAIN det[1].pod.Spec.InitContainers :
          ~Listed(det[1].policy, det[1].pod.Spec.InitContainers[c].Image)
    /\ Len(det[1].outs) >= 1
    /\ Len(RegistryEvents(det[1].outs[1])) = 1

\* the reference rule of the registry of an image: docker.io when the image has
\* no "/"; otherwise what stands before its first "/" when that contains "."
\* or ":", and docker.io when it does not
ReferenceRegistry(image) ==
    LET slashes == {k \in DOMAIN image : image[k] = "/"}
        first == CHOOSE k \in slashes : \A m \in slashes : k <= m
        before == [k \in 1..(first - 1) |-> image[k]]
    IN  IF slashes = {} THEN DockerIO
        ELSE IF \E k \in DOMAIN before : before[k] \in {".", ":"} THEN before
        ELSE DockerIO

\* C19: extractRegistry returns the registry of the reference rule for every
\* image reference; nginx gives docker.io, myregistry.io/nginx gives
\* myregistry.io, library/nginx gives docker.io and localhost:5000/app gives
\* localhost:5000.
C19_ExtractRegistryMatchesReference ==
    (det # None /\ det[1].kind = "extract" /\ det[1].out # None)
    => /\ det[1].out[1] = ReferenceRegistry(det[1].image)
       /\ det[1].image = ImgNginx => det[1].out[1] = DockerIO
       /\ det[1].image = ImgMyRegistry => det[1].out[1] = MyRegistryIO
       /\ det[1].image = ImgLibraryNginx => det[1].out[1] = DockerIO
       /\ det[1].image = ImgLocalhost => det[1].out[1] = Localhost5000

\* extractRegistry has returned the part before the first "/" of an image with
\* two "/", whose first part has a ":" and no "."
C19_Witness ==
    /\ det # None /\ det[1].kind = "extract" /\ det[1].out # None
    /\ Cardinality({k \in DOMAIN det[1].image : det[1].image[k] = "/"}) = 2
    /\ det[1].out[1] # DockerIO
    /\ \E k \in DOMAIN det[1].out[1] : det[1].out[1][k] = ":"
    /\ \A k \in DOMAIN det[1].out[1] : det[1].out[1][k] # "."

\* C20: IsRegistryAllowed is true exactly when allowedRegistries is empty, or
\* the registry is one of its entries, or "*" is one of its entries.
C20_IsRegistryAllowedRule ==
    (det # None /\ det[1].kind = "allow" /\ det[1].out # None)
    => LET entries == {det[1].allowed[k] : k \in DOMAIN det[1].allowed}
       IN  det[1].out[1] <=> \/ entries = {}
                             \/ det[1].registry \in entries
                             \/ Wildcard \in entries

\* IsRegistryAllowed has allowed a registry that is not listed, for a list with
\* the wildcard
C20_Witness ==
    /\ det # None /\ det[1].kind = "allow" /\ det[1].out = Some(TRUE)
    /\ det[1].registry = EvilIO
    /\ \E k \in DOMAIN det[1].allowed : det[1].allowed[k] = Wildcard
    /\ \E k \in DOMAIN det[1].allowed : det[1].allowed[k] = DockerIO

\* the namespaces ShouldApplyToNamespace is compared on
NamespaceMenu == {KubeSystem, "default", "prod", "dev", ""}

\* the rule of the namespaces a policy applies to: never kube-system; every
\* other one when targetNamespaces is empty, else the members of targetNamespaces
NamespaceRule(policy, namespace) ==
    LET targets == {policy.Spec.TargetNamespaces[k] :
                        k \in DOMAIN policy.Spec.TargetNamespaces}
    IN  /\ namespace # KubeSystem
        /\ targets = {} \/ namespace \in targets

\* C21: ShouldApplyToNamespace follows the rule of the namespaces for every
\* stored or listed policy and every namespace, and a pass has evaluated no
\* policy of its list that does not apply to the workload's namespace: no event
\* emitted, no delete and no status write for it.
C21_NamespaceScope ==
    /\ \A name \in DOMAIN policies, namespace \in NamespaceMenu :
          ShouldApplyToNamespace(policies[name], namespace)
            <=> NamespaceRule(policies[name], namespace)
    /\ \A w \in DOMAIN pass : \A m \in DOMAIN pass[w].list :
          /\ ShouldApplyToNamespace(pass[w].list[m], pass[w].pod[1].Namespace)
                <=> NamespaceRule(pass[w].list[m], pass[w].pod[1].Namespace)
          /\ ~NamespaceRule(pass[w].list[m], pass[w].pod[1].Namespace)
             => /\ EventsFor(pass[w], pass[w].list[m].Name) = <<>>
                /\ WritesFor(pass[w], pass[w].list[m].Name) = 0
                /\ \A k \in DOMAIN pass[w].deletes :
                      pass[w].deletes[k].event.PolicyName # pass[w].list[m].Name
                /\ \A k \in DOMAIN pass[w].evaluated :
                      pass[w].evaluated[k].policy # pass[w].list[m].Name
                /\ policies[pass[w].list[m].Name].Status = pass[w].list[m].Status

\* a pass has returned after events for a policy that targets the workload's
\* namespace, and with none for another policy of its list that targets other
\* namespaces only and would have found violations
C21_Witness ==
    \E w \in DOMAIN pass :
        /\ pass[w].pc = "done"
        /\ \E m, n \in DOMAIN pass[w].list :
              /\ pass[w].list[m].Spec.TargetNamespaces # <<>>
              /\ ~NamespaceRule(pass[w].list[m], pass[w].pod[1].Namespace)
              /\ ~IsDisabled(pass[w].list[m])
              /\ checkPodViolations(pass[w].pod[1], pass[w].list[m], clock) # <<>>
              /\ pass[w].list[n].Spec.TargetNamespaces # <<>>
              /\ NamespaceRule(pass[w].list[n], pass[w].pod[1].Namespace)
              /\ EventsFor(pass[w], pass[w].list[n].Name) # <<>>

\* C22: IsEnforcing is true exactly for the modes "" and Enforce, IsAuditing
\* exactly for Audit, IsDisabled exactly for Disabled, ShouldBlockPrivileged is
\* blockPrivileged and not IsDisabled; for each of the modes "", Enforce, Audit
\* and Disabled exactly one of IsEnforcing, IsAuditing, IsDisabled holds.
C22_ModePredicates ==
    (det # None /\ det[1].modes # None)
    => LET mode == det[1].policy.Spec.EnforcementMode
           got == det[1].modes[1]
       IN  /\ got.IsEnforcing <=> mode \in {"", "Enforce"}
           /\ got.IsAuditing <=> mode = "Audit"
           /\ got.IsDisabled <=> mode = "Disabled"
           /\ got.ShouldBlockPrivileged
                <=> (det[1].policy.Spec.BlockPrivileged /\ ~got.IsDisabled)
           /\ mode \in {"", "Enforce", "Audit", "Disabled"}
              => Cardinality({x \in {"IsEnforcing", "IsAuditing", "IsDisabled"} :
                                 got[x]}) = 1

\* the predicates have been taken of a policy with blockPrivileged and the empty
\* mode: enforcing, and blocking privileged containers
C22_Witness ==
    /\ det # None /\ det[1].modes # None
    /\ det[1].policy.Spec.EnforcementMode = ""
    /\ det[1].policy.Spec.BlockPrivileged
    /\ det[1].modes[1].IsEnforcing
    /\ det[1].modes[1].ShouldBlockPrivileged

\* C23: the runs of checkPodViolations on the same workload snapshot and the
\* same policy return the same sequence of violations, record for record and
\* field for field.
C23_DetectionIdempotent ==
    det # None
    => \A a, b \in DOMAIN det[1].outs : det[1].outs[a] = det[1].outs[b]

\* C24: the first termination wins.  A pass that has issued its delete request
\* has emitted nothing after the event of that delete and goes to the status
\* update of the terminating policy and then returns; from the delete on, no
\* step of the pass emits an event, issues a delete or evaluates a policy, and
\* the only write is the one status update of the policy that terminated.
C24_FirstTerminationWins ==
    /\ [](\A w \in DOMAIN pass :
            pass[w].deletes # <<>>
            => /\ Len(pass[w].deletes) = 1
               /\ pass[w].events[Len(pass[w].events)] = pass[w].deletes[1].event
               /\ pass[w].pc \in {"update", "done"}
               /\ pass[w].pc = "update" => Len(pass[w].writes) = Len(pass[w].events) - 1
               /\ (pass[w].pc = "done" /\ "delete" \notin pass[w].failures)
                  => /\ Len(pass[w].writes) = Len(pass[w].events)
                     /\ pass[w].writes[Len(pass[w].writes)].policy
                            = pass[w].deletes[1].event.PolicyName
                     /\ pass[w].writes[Len(pass[w].writes)].wasTerminated)
    /\ [][\A w \in DOMAIN pass :
            (pass[w].deletes # <<>> /\ pass'[w].pc # "idle")
            => /\ pass'[w].events = pass[w].events
               /\ pass'[w].deletes = pass[w].deletes
               /\ pass'[w].evaluated = pass[w].evaluated
               /\ \/ pass'[w].writes = pass[w].writes
                  \/ /\ Len(pass'[w].writes) = Len(pass[w].writes) + 1
                     /\ SubSeq(pass'[w].writes, 1, Len(pass[w].writes)) = pass[w].writes
                     /\ pass'[w].writes[Len(pass'[w].writes)].policy
                            = pass[w].deletes[1].event.PolicyName
                     /\ pass'[w].pc = "done"]_vars

\* a pass has deleted the workload for the first of several violations of an
\* enforcing policy and returned, leaving a second applicable policy with
\* violations of its own unevaluated
C24_Witness ==
    \E w \in DOMAIN pass :
        /\ pass[w].pc = "done" /\ pass[w].result = "ok"
        /\ Len(pass[w].deletes) = 1 /\ pass[w].deletes[1].outcome = "deleted"
        /\ Len(pass[w].events) = 1 /\ Len(pass[w].writes) = 1
        /\ Len(pass[w].violations) >= 2
        /\ Len(pass[w].list) = 2 /\ pass[w].i = 1
        /\ pass[w].list[2].Spec.EnforcementMode = "Audit"
        /\ Applicable(pass[w].list[2], pass[w].pod[1])
        /\ checkPodViolations(pass[w].pod[1], pass[w].list[2], clock) # <<>>
        /\ Len(pass[w].evaluated) = 1

\* C25: a policy pass that found its policy and had no failed write returns
\* success with RequeueAfter set, a pass whose Get reports NotFound returns
\* success without requeue and without any write, and a policy that continues
\* to exist is fetched by a pass again and again.
C25_PolicyRequeue ==
    /\ [](ppass.pc = "done"
            => /\ (ppass.policy # None /\ \A k \in DOMAIN ppass.writes :
                                            ppass.writes[k] = "ok")
                  => (ppass.result = "ok" /\ ppass.requeueAfter = RequeueAfterSeconds)
               /\ ppass.policy = None
                  => (ppass.writes = <<>> /\ ppass.requeueAfter = 0))
    /\ [][(ppass.pc = "get" /\ StoredPolicy(ppass.req) = None /\ faults' = faults
            /\ ppass' # ppass)
          => /\ ppass'.pc = "done" /\ ppass'.result = "ok"
             /\ ppass'.requeueAfter = 0 /\ ppass'.writes = <<>>
             /\ policies' = policies]_vars
    /\ [][(ppass.pc = "done" /\ ppass' # ppass)
          => LET queued == \E k \in DOMAIN pqueue' : pqueue'[k] = ppass.req
             IN  /\ (ppass.result = "err" \/ ppass.requeueAfter > 0) => queued
                 /\ queued => \/ ppass.result = "err" \/ ppass.requeueAfter > 0
                               \/ \E k \in DOMAIN pqueue : pqueue[k] = ppass.req]_vars
    /\ \A name \in PolicyNames :
          []<>(name \notin DOMAIN policies \/ (ppass.pc = "get" /\ ppass.req = name))

\* a pass of a policy whose status is already up to date has returned with
\* RequeueAfter and without a write, while the other policy is gone
C25_Witness ==
    /\ ppass.pc = "done" /\ ppass.result = "ok"
    /\ ppass.requeueAfter = RequeueAfterSeconds
    /\ ppass.writes = <<>>
    /\ ppass.policy # None
    /\ ppass.policy[1].Status.Phase = "Active"
    /\ ppass.policy[1].Status.ObservedGeneration = MaxGeneration
    /\ DOMAIN policies = {ppass.req}

\* the violations expected of the containers from the k-th on, as pairs of type
\* and container name: per container PRIVILEGED_CONTAINER (privileged present
\* and true, under a policy that blocks privileged containers and is not
\* Disabled), then DISALLOWED_REGISTRY, then ROOT_USER (runAsUser present and 0)
RECURSIVE ExpectedOfContainers(_, _, _)
ExpectedOfContainers(pod, policy, k) ==
    IF k > Len(AllContainers(pod)) THEN <<>>
    ELSE LET c == AllContainers(pod)[k]
         IN  (IF /\ policy.Spec.BlockPrivileged
                 /\ policy.Spec.EnforcementMode # "Disabled"
                 /\ Privileged(c)
              THEN << <<"PRIVILEGED_CONTAINER", c.Name>> >> ELSE <<>>)
             \o (IF Disallowed(policy, c.Image)
                 THEN << <<"DISALLOWED_REGISTRY", c.Name>> >> ELSE <<>>)
             \o (IF RunsAsRoot(c) THEN << <<"ROOT_USER", c.Name>> >> ELSE <<>>)
             \o ExpectedOfContainers(pod, policy, k + 1)

\* the violations expected of a workload, in order
ExpectedOrder(pod, policy) ==
    (IF pod.Spec.HostNetwork THEN << <<"HOST_NETWORK", "">> >> ELSE <<>>)
    \o ExpectedOfContainers(pod, policy, 1)

\* C26: checkPodViolations returns the violations in the fixed order: the
\* HOST_NETWORK violation of the pod first, then container by container (the
\* main containers, then the init containers) PRIVILEGED_CONTAINER,
\* DISALLOWED_REGISTRY, ROOT_USER; an absent privileged or runAsUser gives no
\* violation.
C26_DetectorOrder ==
    det # None
    => \A r \in DOMAIN det[1].outs :
          [k \in DOMAIN det[1].outs[r] |->
                <<det[1].outs[r][k].EventType, det[1].outs[r][k].Container>>]
            = ExpectedOrder(det[1].pod, det[1].policy)

\* the detector has returned, for a workload on the host network with a main and
\* an init container, the five violations of the four types in order
C26_Witness ==
    /\ det # None
    /\ Len(det[1].outs) >= 1
    /\ det[1].pod.Spec.InitContainers # <<>>
    /\ [k \in DOMAIN det[1].outs[1] |-> det[1].outs[1][k].EventType]
          = <<"HOST_NETWORK", "PRIVILEGED_CONTAINER", "DISALLOWED_REGISTRY",
              "ROOT_USER", "DISALLOWED_REGISTRY">>
    /\ det[1].outs[1][5].Container = det[1].pod.Spec.InitContainers[1].Name

\* the severity fixed for a type of violation
SeverityOf(type) == IF type = "PRIVILEGED_CONTAINER" THEN "CRITICAL" ELSE "HIGH"

\* C27: every violation a pass emitted has the severity of its type, and once
\* the pass has returned, a violation recorded with action Audit was not
\* followed by a delete request for it, and one recorded with action Terminate
\* was.
C27_ActionMatchesOutcome ==
    \A w \in DOMAIN pass : \A k \in DOMAIN pass[w].events :
        /\ pass[w].events[k].EventType
                \in {"HOST_NETWORK", "PRIVILEGED_CONTAINER", "DISALLOWED_REGISTRY",
                     "ROOT_USER"}
        /\ pass[w].events[k].Severity = SeverityOf(pass[w].events[k].EventType)
        /\ pass[w].events[k].Action = "AUDIT"
           => \A d \in DOMAIN pass[w].deletes :
                 pass[w].deletes[d].event # pass[w].events[k]
        /\ (pass[w].events[k].Action = "TERMINATED" /\ pass[w].pc = "done")
           => \E d \in DOMAIN pass[w].deletes :
                 pass[w].deletes[d].event = pass[w].events[k]

C29_AuditLeavesTimeAndMessage ==
    \A w \in DOMAIN pass :
        ( /\ pass[w].pc = "done"
          /\ pass[w].writes # <<>>
          /\ \A k \in DOMAIN pass[w].writes : ~pass[w].writes[k].wasTerminated )
        => \A m \in DOMAIN pass[w].list :
              /\ policies[pass[w].list[m].Name].Status.LastEnforcementTime
                    = pass[w].list[m].Status.LastEnforcementTime
              /\ policies[pass[w].list[m].Name].Status.Message
                    = pass[w].list[m].Status.Message

\* the message and the Ready condition the policy pass writes in its step pc
\* ("init": the initialisation, "changed": the configuration change)
CarriesStatusOf(status, pc) ==
    /\ Len(status.Conditions) = 1
    /\ status.Conditions[1].Type = "Ready"
    /\ status.Conditions[1].Status = "True"
    /\ status.Conditions[1].Reason
            = IF pc = "init" THEN "PolicyActive" ELSE "PolicyUpdated"
    /\ status.Message.text
            = IF pc = "init" THEN "Policy is active and enforcing"
              ELSE "Policy configuration updated"

\* C30: the stored observedGeneration of a policy never exceeds its generation
\* and never decreases; it changes only in a committed status write of the
\* policy pass, to the generation the pass read, together with the message and
\* the Ready condition of that write; a failed write of the policy pass leaves
\* the stored policies unchanged and the pass returns an error.
C30_ObservedGeneration ==
    /\ [](\A name \in DOMAIN policies :
            policies[name].Status.ObservedGeneration <= policies[name].Generation)
    /\ []((ppass.pc = "done" /\ \E k \in DOMAIN ppass.writes : ppass.writes[k] # "ok")
            => ppass.result = "err")
    /\ [][/\ \A name \in (DOMAIN policies) \cap (DOMAIN policies') :
               /\ policies'[name].Status.ObservedGeneration
                    >= policies[name].Status.ObservedGeneration
               /\ policies'[name].Status.ObservedGeneration
                    # policies[name].Status.ObservedGeneration
                  => /\ ppass.pc \in {"init", "changed"}
                     /\ ppass.req = name
                     /\ ppass'.writes = Append(ppass.writes, "ok")
                     /\ policies'[name].Status.ObservedGeneration = ppass.generation
                     /\ policies'[name].Generation = ppass.generation
                     /\ CarriesStatusOf(policies'[name].Status, ppass.pc)
          /\ ( /\ Len(ppass'.writes) = Len(ppass.writes) + 1
               /\ ppass'.writes[Len(ppass'.writes)] # "ok" )
             => (policies' = policies /\ ppass'.result = "err")]_vars

\* the policy pass has committed the status of the edited spec of pa, whose
\* counters a pod pass has written
C30_Witness ==
    /\ "pa" \in DOMAIN policies
    /\ policies["pa"].Generation >= 2
    /\ policies["pa"].Status.ObservedGeneration = policies["pa"].Generation
    /\ CarriesStatusOf(policies["pa"].Status, "changed")
    /\ policies["pa"].Status.ViolationsCount >= 1
    /\ ppass.pc = "done" /\ ppass.result = "ok"
    /\ ppass.writes = <<"ok">>

-----------------------------------------------------------------------------
\* a is a prefix of b
IsPrefix(a, b) ==
    /\ Len(a) <= Len(b)
    /\ \A k \in DOMAIN a : a[k] = b[k]

\* C31: a committed status write of the generation-changed branch of a policy
\* pass keeps every condition the status held before it, in order, and adds one
\* Ready condition with reason PolicyUpdated after them.
C31_ConditionAppended ==
    [][(/\ ppass.pc = "changed"
        /\ ppass'.writes = Append(ppass.writes, "ok"))
       => LET before == policies[ppass.req].Status.Conditions
              after == policies'[ppass.req].Status.Conditions
          IN  /\ Len(after) = Len(before) + 1
              /\ IsPrefix(before, after)
              /\ after[Len(after)].Reason = "PolicyUpdated"]_vars

-----------------------------------------------------------------------------
\* the violations of the policies of list before index upto that are not
\* skipped, in the order of the list and, for each, in detection order
RECURSIVE ViolationsBefore(_, _, _, _)
ViolationsBefore(list, pod, upto, now) ==
    IF upto <= 1 THEN <<>>
    ELSE ViolationsBefore(list, pod, upto - 1, now)
         \o (IF Applicable(list[upto - 1], pod)
             THEN checkPodViolations(pod, list[upto - 1], now)
             ELSE <<>>)

\* C32: the event is handed to the emitter before the action is taken.  In a
\* pass that is about to issue its delete request or has issued it, the events
\* handed to the emitter are exactly the violations of the policies visited
\* before the terminating one, in detection order, followed by the violation
\* the delete is for; the delete request is for that last event.
C32_EmitBeforeAction ==
    \A w \in DOMAIN pass :
        LET p == pass[w]
        IN  (p.pc = "delete" \/ p.deletes # <<>>)
            => /\ p.events = ViolationsBefore(p.list, p.pod[1], p.i, clock)
                               \o <<p.violations[p.j]>>
               /\ p.violations = checkPodViolations(p.pod[1], p.list[p.i], clock)
               /\ p.j = 1
               /\ \A k \in DOMAIN p.deletes :
                    p.deletes[k].event = p.events[Len(p.events)]

\* a pass has issued its delete request for a violation of the second policy of
\* its list after emitting the violations of an auditing policy before it, the
\* emission having failed
C32_Witness ==
    \E w \in DOMAIN pass :
        /\ Len(pass[w].deletes) = 1
        /\ pass[w].i = 2
        /\ Len(pass[w].events) >= 3
        /\ pass[w].events[1].PolicyName # pass[w].events[Len(pass[w].events)].PolicyName
        /\ pass[w].emitFailed

-----------------------------------------------------------------------------
\* the pass has returned from the loop over policies.Items: it got a snapshot
\* that is evaluated and the list of the policies
LoopReturned(p) ==
    /\ p.pc = "done"
    /\ p.pod # None
    /\ ~TerminalSnapshot(p)
    /\ "list" \notin p.failures

\* some stored policy that is neither skipped nor in a mode that is not
\* enforcing has a violation for the workload
SomeEnforcingViolation(pod) ==
    \E name \in DOMAIN policies :
        /\ Applicable(policies[name], pod)
        /\ IsEnforcing(policies[name])
        /\ checkPodViolations(pod, policies[name], clock) # <<>>

\* C33: whether a pass issues a delete request does not depend on the order of
\* the policy list.  In every order r.List may return the policies in, a pass
\* that went through the loop has issued a delete request iff some applicable
\* enforcing policy has at least one violation for the snapshot, and then it
\* has issued exactly one.
C33_TerminationOrderIndependent ==
    \A w \in DOMAIN pass :
        LoopReturned(pass[w])
        => /\ {pass[w].list[k].Name : k \in DOMAIN pass[w].list} = DOMAIN policies
           /\ pass[w].deletes # <<>> <=> SomeEnforcingViolation(pass[w].pod[1])
           /\ Len(pass[w].deletes) <= 1

\* a pass that was given the policies with pb before pa has written the status
\* of the auditing pb and issued its delete request for the enforcing pa
C33_Witness ==
    \E w \in DOMAIN pass :
        /\ LoopReturned(pass[w])
        /\ Len(pass[w].list) = 2
        /\ pass[w].list[1].Name = "pb" /\ pass[w].list[2].Name = "pa"
        /\ ~IsEnforcing(pass[w].list[1]) /\ IsEnforcing(pass[w].list[2])
        /\ \E k \in DOMAIN pass[w].writes : pass[w].writes[k].policy = "pb"
        /\ Len(pass[w].deletes) = 1
        /\ pass[w].deletes[1].event.PolicyName = "pa"

-----------------------------------------------------------------------------
\* no stored policy that applies to the workload's namespace and is not
\* disabled has a violation for it
NoViolationAtAll(pod) ==
    \A name \in DOMAIN policies :
        (ShouldApplyToNamespace(policies[name], pod.Namespace)
         /\ ~IsDisabled(policies[name]))
        => checkPodViolations(pod, policies[name], clock) = <<>>

\* C34: a pass for a workload no applicable policy has a violation for leaves
\* the shared state alone.  It emits no event, issues no delete and writes no
\* policy status, it never reaches the emission, the delete or the status
\* update, and none of its steps changes a stored policy or a stored workload.
C34_NoViolationNoEffect ==
    /\ [](\A w \in DOMAIN pass :
            (pass[w].pod # None /\ NoViolationAtAll(pass[w].pod[1]))
            => /\ pass[w].events = <<>>
               /\ pass[w].deletes = <<>>
               /\ pass[w].writes = <<>>
               /\ pass[w].pc \notin {"emit", "delete", "update"})
    /\ [][\A w \in DOMAIN pass :
            (/\ pass'[w] # pass[w]
             /\ pass'[w].pod # None
             /\ NoViolationAtAll(pass'[w].pod[1]))
            => (policies' = policies /\ pods' = pods /\ calls' = calls)]_vars

\* a pass has returned from the loop over two policies, both applicable and
\* not disabled, for a workload that violates neither
C34_Witness ==
    \E w \in DOMAIN pass :
        /\ LoopReturned(pass[w])
        /\ NoViolationAtAll(pass[w].pod[1])
        /\ Len(pass[w].evaluated) = 2
        /\ \E k \in DOMAIN pass[w].list :
              pass[w].list[k].Spec.AllowedRegistries # <<>>
        /\ \A name \in DOMAIN policies : policies[name].Status = ZeroStatus

-----------------------------------------------------------------------------
\* the pass has returned success and every status write it made was committed
ReturnedAllCommitted(p) ==
    /\ p.pc = "done" /\ p.result = "ok"
    /\ \A k \in DOMAIN p.writes : p.writes[k].outcome = "ok"

\* C35: in a pass that returns success with all its status writes committed,
\* the stored violationsCount of every listed policy exceeds the listed one by
\* the number of events the pass handed to the emitter for that policy: all the
\* violations of an auditing policy, one for the policy that terminates, none
\* for a policy that is skipped or not reached.
C35_CountMatchesEvents ==
    \A w \in DOMAIN pass :
        LET p == pass[w]
        IN  ReturnedAllCommitted(p)
            => \A k \in DOMAIN p.list :
                  LET name == p.list[k].Name
                      emitted == Len(EventsFor(p, name))
                  IN  /\ policies[name].Status.ViolationsCount
                            = p.list[k].Status.ViolationsCount + emitted
                      /\ emitted =
                            IF ~Applicable(p.list[k], p.pod[1]) THEN 0
                            ELSE IF p.deletes # <<>> /\ k > p.i THEN 0
                            ELSE IF IsEnforcing(p.list[k])
                            THEN (IF checkPodViolations(p.pod[1], p.list[k], clock) = <<>>
                                  THEN 0 ELSE 1)
                            ELSE Len(checkPodViolations(p.pod[1], p.list[k], clock))

\* a pass has returned success after two committed writes for the two
\* violations of an auditing policy and one for the policy that terminated
C35_Witness ==
    \E w \in DOMAIN pass :
        /\ ReturnedAllCommitted(pass[w])
        /\ Len(pass[w].list) = 2
        /\ Len(EventsFor(pass[w], pass[w].list[1].Name)) >= 2
        /\ policies[pass[w].list[1].Name].Status.ViolationsCount >= 2
        /\ Len(EventsFor(pass[w], pass[w].list[2].Name)) = 1
        /\ Len(pass[w].deletes) = 1
        /\ policies[pass[w].list[2].Name].Status.TerminationsCount = 1

-----------------------------------------------------------------------------
\* the delete request of the pass failed with an error other than NotFound
DeleteFailed(p) ==
    /\ p.deletes # <<>>
    /\ p.deletes[Len(p.deletes)].outcome = "error"

\* the events a delete request of the retry specification can be for: the
\* first violation of one of its workloads under one of its enforcing policies
DeleteEvents ==
    UNION {IF IsEnforcing(NewPolicy(name, spec))
              /\ checkPodViolations(pod, NewPolicy(name, spec), now) # <<>>
           THEN {checkPodViolations(pod, NewPolicy(name, spec), now)[1]}
           ELSE {} :
           pod \in ConcurrentPods, name \in PolicyNames, spec \in ConcurrentMenu,
           now \in 1..MaxClock}

\* pass p emitted event e
Emitted(p, e) == \E k \in DOMAIN p.events : p.events[k] = e

\* the loop of pass p got as far as the policy named name
ReachedPolicy(p, name) ==
    /\ LoopReturned(p)
    /\ \E k \in DOMAIN p.list : p.list[k].Name = name /\ k <= p.i

\* a pass whose delete request failed returns the error at once, with the event
\* of the delete emitted and the status of the enforcing policy not written
DeleteFailureReturned ==
    /\ [](\A w \in DOMAIN pass :
            DeleteFailed(pass[w])
            => LET p == pass[w]
                   name == p.deletes[1].event.PolicyName
               IN  /\ p.pc = "done" /\ p.result = "err"
                   /\ Len(p.deletes) = 1
                   /\ p.events[Len(p.events)] = p.deletes[1].event
                   /\ WritesFor(p, name) = 0
                   /\ policies[name].Status.ViolationsCount
                        = p.list[p.i].Status.ViolationsCount
                   /\ policies[name].Status.TerminationsCount
                        = p.list[p.i].Status.TerminationsCount)
    /\ [][\A w \in DOMAIN pass :
            (DeleteFailed(pass[w]) /\ pass'[w] # pass[w])
            => (pass'[w] = IdlePass /\ queue' = Append(queue, pass[w].req)
                /\ policies' = policies)]_vars

-----------------------------------------------------------------------------
\* the mode of the policy is neither empty nor Enforce nor Disabled
AuditOnlyMode(policy) ==
    policy.Spec.EnforcementMode \notin {"", "Enforce", "Disabled"}

\* C37: a policy whose mode is Audit or an unrecognised string is handled as
\* audit only.  Every event a pass hands to the emitter for it has action
\* AUDIT, every status write for it has wasTerminated false, no delete request
\* is for one of its violations and its terminationsCount stays as listed; a
\* pass that returns from the loop without an earlier termination has emitted
\* all its violations, in detection order, with one status write for each.
C37_OtherModesAuditOnly ==
    \A w \in DOMAIN pass :
      \A k \in DOMAIN pass[w].list :
        LET p == pass[w]
            policy == p.list[k]
        IN  AuditOnlyMode(policy)
            => /\ \A e \in DOMAIN p.events :
                    p.events[e].PolicyName = policy.Name
                    => p.events[e].Action = "AUDIT"
               /\ \A x \in DOMAIN p.writes :
                    p.writes[x].policy = policy.Name => ~p.writes[x].wasTerminated
               /\ \A d \in DOMAIN p.deletes :
                    p.deletes[d].event.PolicyName # policy.Name
               /\ policies[policy.Name].Status.TerminationsCount
                    = policy.Status.TerminationsCount
               /\ (LoopReturned(p) /\ (p.deletes = <<>> \/ k < p.i))
                  => /\ EventsFor(p, policy.Name)
                          = IF ShouldApplyToNamespace(policy, p.pod[1].Namespace)
                            THEN checkPodViolations(p.pod[1], policy, clock)
                            ELSE <<>>
                     /\ WritesFor(p, policy.Name) = Len(EventsFor(p, policy.Name))

\* a pass has returned from the loop after emitting two or more violations of a
\* policy of mode Warn and writing its status for each, the workload still
\* stored
C37_Witness ==
    \E w \in DOMAIN pass :
      \E k \in DOMAIN pass[w].list :
        /\ LoopReturned(pass[w])
        /\ pass[w].list[k].Spec.EnforcementMode = "Warn"
        /\ Len(EventsFor(pass[w], pass[w].list[k].Name)) >= 2
        /\ WritesFor(pass[w], pass[w].list[k].Name) >= 2
        /\ pass[w].deletes = <<>>
        /\ StoredPod(pass[w].req) # {}
        /\ policies[pass[w].list[k].Name].Status.ViolationsCount >= 2

-----------------------------------------------------------------------------
\* the status holds exactly one condition, of type Ready and status True
OneReadyCondition(status) ==
    /\ Len(status.Conditions) = 1
    /\ status.Conditions[1].Type = "Ready"
    /\ status.Conditions[1].Status = "True"

\* C38: a policy pass makes at most one status write.  When a pass that found
\* its policy has returned success, the pass's copy of the status and the
\* stored status, if the policy is still stored, have the phase set and the
\* observedGeneration equal to the generation the pass read, and exactly one
\* Ready=True condition if the pass wrote; so also when a pod pass had set the
\* phase before the policy pass ever initialised the status.
C38_PolicyPassOneWrite ==
    /\ Len(ppass.writes) <= 1
    /\ (ppass.pc = "done" /\ ppass.result = "ok" /\ ppass.policy # None)
       => /\ ppass.policy[1].Status.Phase # ""
          /\ ppass.policy[1].Status.ObservedGeneration = ppass.generation
          /\ ppass.writes # <<>>
             => (ppass.writes = <<"ok">> /\ OneReadyCondition(ppass.policy[1].Status))
          /\ ppass.req \in DOMAIN policies
             => LET stored == policies[ppass.req].Status
                IN  /\ stored.Phase # ""
                    /\ stored.ObservedGeneration = ppass.generation
                    /\ ppass.writes # <<>> => OneReadyCondition(stored)

\* a policy pass has returned success after one write in the generation-changed
\* branch for a policy that was never edited: a pod pass had set its phase and
\* counted a violation before the status was initialised
C38_Witness ==
    /\ ppass.pc = "done" /\ ppass.result = "ok"
    /\ ppass.writes = <<"ok">>
    /\ ppass.req \in DOMAIN policies
    /\ policies[ppass.req].Generation = 1
    /\ policies[ppass.req].Status.ObservedGeneration = 1
    /\ policies[ppass.req].Status.Phase = "Active"
    /\ policies[ppass.req].Status.ViolationsCount >= 1
    /\ OneReadyCondition(policies[ppass.req].Status)
    /\ policies[ppass.req].Status.Conditions[1].Reason = "PolicyUpdated"

-----------------------------------------------------------------------------
\* the fields of the status the pod passes maintain
EnforcementCounters(status) ==
    [ViolationsCount |-> status.ViolationsCount,
     TerminationsCount |-> status.TerminationsCount,
     LastEnforcementTime |-> status.LastEnforcementTime]

\* C39: a committed status write of a policy pass leaves the stored
\* violationsCount, terminationsCount and lastEnforcementTime of the policy as
\* they were right before the write, whatever the pod passes wrote in the
\* meantime; a write of a policy pass that is not committed changes no policy.
C39_PolicyWriteKeepsCounters ==
    [][(/\ ppass.pc \in {"init", "changed"}
        /\ Len(ppass'.writes) = Len(ppass.writes) + 1)
       => IF ppass'.writes[Len(ppass'.writes)] = "ok"
          THEN /\ ppass.req \in DOMAIN policies /\ ppass.req \in DOMAIN policies'
               /\ policies'[ppass.req].Status # policies[ppass.req].Status
               /\ EnforcementCounters(policies'[ppass.req].Status)
                    = EnforcementCounters(policies[ppass.req].Status)
               /\ \A name \in DOMAIN policies \ {ppass.req} :
                    policies'[name] = policies[name]
          ELSE policies' = policies]_vars

\* a policy pass has committed its write for a policy whose stored counters a
\* pod pass had raised, and holds the stored counters in its copy, while a pod
\* pass is about to write the status of that policy
C39_Witness ==
    /\ ppass.pc = "done" /\ ppass.writes = <<"ok">>
    /\ ppass.req \in DOMAIN policies
    /\ policies[ppass.req].Status.ViolationsCount >= 1
    /\ policies[ppass.req].Status.LastEnforcementTime >= 1
    /\ EnforcementCounters(ppass.policy[1].Status)
         = EnforcementCounters(policies[ppass.req].Status)
    /\ \E w \in DOMAIN pass :
          /\ pass[w].pc = "update"
          /\ pass[w].policy[1].Name = ppass.req

-----------------------------------------------------------------------------
\* the stored status of the policy has caught up with its spec
Converged(name) ==
    policies[name].Status.ObservedGeneration = policies[name].Generation

\* the policy pass is about to write the status of the policy
WritePending(name) ==
    ppass.req = name /\ ppass.pc \in {"init", "changed"}

\* C40: the status of a policy converges.  With the policy passes scheduled
\* again and again and finitely many edits and failed calls, every policy that
\* stays stored ends up, for ever, with its stored observedGeneration equal to
\* its generation and no status write of a policy pass pending; and a policy
\* pass attempts a status write only for a policy that is gone or whose stored
\* observedGeneration differs from its generation.
C40_StatusConverges ==
    /\ \A name \in PolicyNames :
          <>[](name \in DOMAIN policies => (Converged(name) /\ ~WritePending(name)))
    /\ [][Len(ppass'.writes) = Len(ppass.writes) + 1
          => (ppass.req \in DOMAIN policies => ~Converged(ppass.req))]_vars

\* after an edit of its spec and a failed call, the policy has its stored
\* observedGeneration equal to its generation, and a policy pass for it has
\* returned without a write, asking to be run again
C40_Witness ==
    \E name \in DOMAIN policies :
        /\ policies[name].Generation >= 2
        /\ Converged(name)
        /\ faults >= 1
        /\ ppass.req = name
        /\ ppass.pc = "done" /\ ppass.result = "ok"
        /\ ppass.writes = <<>>
        /\ ppass.requeueAfter = RequeueAfterSeconds

====
